---- MODULE Spec2Model ----
(***************************************************************************)
(* Model of the adaptive retrieval-and-filtering engine of the D&D RAG     *)
(* system: src/src/query/docling_query.py (DnDRAG), the predicate module   *)
(* src/src/query/query_must_filter.py, and the HTTP front end's use of the *)
(* shared engine instance (src/src/api.py, src/src/utils/rag_output.py),   *)
(* with the front end's per-user rate limiter and daily cost tracker       *)
(* (src/src/utils/rate_limiter.py, src/src/utils/cost_tracker.py).         *)
(*                                                                         *)
(* Conventions                                                             *)
(*  - Python lists are sequences; Python position i is index i+1 here.     *)
(*    Positions named in properties are Python (0-based) positions.        *)
(*  - Distances are in hundredths (0.06 is 6, 0.4 is 40).  The distance    *)
(*    values used are ones on which binary floating point and exact        *)
(*    arithmetic give the same comparison results in the selector.         *)
(*  - Text is a sequence of one-character strings.                         *)
(*  - Bucket tokens are counted in halves (a whole token is TokenUnit) and  *)
(*    the clock in ticks; money is counted in tenths of the daily budget.   *)
(***************************************************************************)
EXTENDS Integers, Sequences, FiniteSets, TLC

VARIABLES
    query,              \* the question: [text]
    k,                  \* target result count
    distance_threshold, \* relative distance threshold (hundredths)
    max_iterations,     \* re-query budget of the filtering loop
    enable_filtering,   \* retrieve()'s enable_filtering argument
    collection,         \* the store's passages, ranked by distance to the query
    where_semantics,    \* how the store treats a where clause on uid
    pc,                 \* position of the request's control flow
    results,            \* working hit list: four parallel lists
    strategy_used,      \* branch the cutoff selector took
    beforeCutoff,       \* history: the working list handed to the selector
    entities_mentioned, \* _retrieve_base: the entities detected in the query
    expanded_k,         \* _retrieve_base: n_results of the main search
    matched_indices,    \* _retrieve_base: Python indices of the matched hits
    missing_entities,   \* _retrieve_base: entities with no match in the hits
    fetched,            \* history: the hit list as the main search returned it
    excluded_ids,       \* _retrieve_with_filtering: rejected uids
    kept_ids,           \* _retrieve_with_filtering: kept uids
    all_kept_chunks,    \* _retrieve_with_filtering: kept chunks, in order
    iteration,          \* _retrieve_with_filtering: loop counter
    newly_kept,         \* chunks kept in the current round
    newly_excluded,     \* uids rejected in the current round
    embedding_calls,    \* history: calls of get_embedding in this request
    store_queries,      \* history: main vector-store queries in this request
    entity_lookups,     \* history: targeted entity lookups in this request
    category_get,       \* history: what collection.get did in this request
    predicate,          \* the query_must value handed to the evaluator
    verdict,            \* what the evaluator returned (or raised)
    output,             \* api.py: the engine's output attribute, a buffer's index
    buffers,            \* api.py: every RAGOutput created so far
    request_pc,         \* api.py: position of each request being served
    response,           \* api.py: what each request has sent back
    limiter,            \* TokenBucket: [capacity, refill_rate, daily_limit]
    files,              \* data_dir: the content of each user file
    locks,              \* flock: the call holding each file's lock, 0 if free
    calls,              \* allow_request: each call's position, locals, result
    now,                \* time.time(), in ticks
    today,              \* time.strftime('%Y-%m-%d'), as a day number
    tracker,            \* CostTracker: the object's fields
    emails,             \* history: every message handed to _send_email
    validator,          \* TokenValidator: [cache_ttl, cache]
    validations,        \* history: every validate call and what it did
    handled             \* api.py query(): each request's position and outcome

requestVars == <<query, k, distance_threshold, max_iterations, enable_filtering,
                 collection, where_semantics>>
cutoffVars == <<results, strategy_used, beforeCutoff>>
baseVars == <<entities_mentioned, expanded_k, matched_indices, missing_entities,
              fetched>>
loopVars == <<excluded_ids, kept_ids, all_kept_chunks, iteration, newly_kept,
              newly_excluded>>
callVars == <<embedding_calls, store_queries, entity_lookups, category_get>>
predicateVars == <<predicate, verdict>>
serverVars == <<output, buffers, request_pc, response>>
limiterVars == <<limiter, files, locks, calls>>
clockVars == <<now, today>>
trackerVars == <<tracker, emails>>
gateVars == <<validator, validations, handled>>
utilVars == <<limiterVars, clockVars, trackerVars, gateVars>>

vars == <<requestVars, pc, cutoffVars, baseVars, loopVars, callVars,
          predicateVars, serverVars, utilVars>>

----------------------------------------------------------------------------
(* Bounds and program constants                                            *)

MaxLen == 5
MaxK == 5
GapThreshold == 6
Epsilon == 5

Min2(a, b) == IF a <= b THEN a ELSE b
Max2(a, b) == IF a >= b THEN a ELSE b

\* s[:n]
Take(s, n) == SubSeq(s, 1, Min2(Max2(n, 0), Len(s)))

\* del s[idx] and s.insert(idx, x), idx a Python index within the list
DeleteAt(s, idx) == SubSeq(s, 1, idx) \o SubSeq(s, idx + 2, Len(s))

\* mutant: an insert behind index 0 goes to the end of the list
InsertAtOrAppend(s, idx, x) ==
    IF idx = 0 THEN <<x>> \o s ELSE Append(s, x)

InsertAt(s, idx, x) ==
    SubSeq(s, 1, Min2(idx, Len(s))) \o <<x>> \o SubSeq(s, Min2(idx, Len(s)) + 1, Len(s))

Range(s) == {s[i] : i \in 1..Len(s)}

EmptyResults == [ids |-> <<>>, documents |-> <<>>, metadatas |-> <<>>,
                 distances |-> <<>>]

NoQuery == [text |-> <<>>]

----------------------------------------------------------------------------
(* Text: sequences of one-character strings.  Python's re and str methods  *)
(* as far as the predicate module uses them.                               *)

MaxQueryLen == 3

Alphabet == {"a", "A", "s", "1", " "}

DigitChars == {"0", "1", "2", "3", "4", "5", "6", "7", "8", "9"}
LetterChars == {"a", "s", "A", "S", "d", "o", "r", "R", "v", "w", "y"}

\* \w of Python's re
IsWordChar(c) == c \in DigitChars \cup LetterChars \cup {"_"}

\* str.lower() on one character
LowerChar(c) ==
    CASE c = "A" -> "a" [] c = "S" -> "s" [] c = "R" -> "r" [] OTHER -> c

\* str.lower()
Lower(text) == [i \in 1..Len(text) |-> LowerChar(text[i])]

\* \b at Python position i of text (0 <= i <= len)
WordBoundary(text, i) ==
    LET before == i > 0 /\ IsWordChar(text[i])
        after == i < Len(text) /\ IsWordChar(text[i + 1])
    IN  before # after

\* the literal term occupies text[i : i + len(term)]
OccursAt(text, i, term) ==
    /\ i + Len(term) <= Len(text)
    /\ SubSeq(text, i + 1, i + Len(term)) = term

\* re.search(r'\b' + re.escape(term) + r'\b', text)
SearchWord(term, text) ==
    \E i \in 0..Len(text) :
        /\ WordBoundary(text, i)
        /\ OccursAt(text, i, term)
        /\ WordBoundary(text, i + Len(term))

\* re.search(r'\b' + re.escape(term) + r's?\b', text)
SearchWordOrPlural(term, text) ==
    \E i \in 0..Len(text) :
        /\ WordBoundary(text, i)
        /\ OccursAt(text, i, term)
        /\ \/ WordBoundary(text, i + Len(term))
           \/ /\ i + Len(term) < Len(text)
              /\ text[i + Len(term) + 1] = "s"
              /\ WordBoundary(text, i + Len(term) + 1)

DigitValue(c) ==
    CASE c = "0" -> 0 [] c = "1" -> 1 [] c = "2" -> 2 [] c = "3" -> 3
      [] c = "4" -> 4 [] c = "5" -> 5 [] c = "6" -> 6 [] c = "7" -> 7
      [] c = "8" -> 8 [] c = "9" -> 9

\* int(n) for a string of digits
RECURSIVE ToInt(_)
ToInt(digits) ==
    IF Len(digits) = 0 THEN 0
    ELSE 10 * ToInt(SubSeq(digits, 1, Len(digits) - 1))
         + DigitValue(digits[Len(digits)])

IsDigitRun(text, i, j) ==
    /\ i < j
    /\ \A n \in (i + 1)..j : text[n] \in DigitChars

\* [int(n) for n in re.findall(r'\b\d+\b', query)]
ExtractNumbers(text) ==
    {ToInt(SubSeq(text, i + 1, j)) :
        <<i, j>> \in {m \in (0..Len(text)) \X (0..Len(text)) :
            /\ IsDigitRun(text, m[1], m[2])
            /\ WordBoundary(text, m[1])
            /\ WordBoundary(text, m[2])}}


\* a in b, for strings
IsSubstring(a, b) == \E i \in 0..Len(b) : OccursAt(b, i, a)

\* str.strip()
Strip(text) ==
    LET inked == {i \in 1..Len(text) : text[i] # " "}
    IN  IF inked = {} THEN <<>>
        ELSE SubSeq(text, CHOOSE i \in inked : \A j \in inked : i <= j,
                          CHOOSE i \in inked : \A j \in inked : i >= j)

\* text.split('(')[0]
BeforeParenthesis(text) ==
    LET opens == {i \in 1..Len(text) : text[i] = "("}
    IN  IF opens = {} THEN text
        ELSE SubSeq(text, 1, (CHOOSE i \in opens : \A j \in opens : i <= j) - 1)
----------------------------------------------------------------------------
(* Predicate evaluator: query_must_filter.py.  A parsed query_must value   *)
(* is [type, keys, contain_one_of, contain_all_of, contain, contain_range]:*)
(* type is the JSON type of the value, keys the clauses an object holds.   *)
(* A function returns "True" or "False", or the exception it raises.       *)

RangeObject(keys, lo, hi) ==
    [type |-> "object", keys |-> keys, min |-> lo, max |-> hi]
RangeNumber == [type |-> "number", keys |-> {}, min |-> 0, max |-> 0]
NoRange == RangeObject({}, 0, 0)

QueryMust(type, one_of, all_of, contain, range) ==
    [type |-> type,
     keys |-> {c \in {"contain_one_of"} : one_of.present}
              \cup {c \in {"contain_all_of"} : all_of.present}
              \cup {c \in {"contain"} : contain.present}
              \cup {c \in {"contain_range"} : range.present},
     contain_one_of |-> one_of.value,
     contain_all_of |-> all_of.value,
     contain |-> contain.value,
     contain_range |-> range.value]

Absent(default) == [present |-> FALSE, value |-> default]
Present(v) == [present |-> TRUE, value |-> v]

QueryMustNull ==
    QueryMust("null", Absent(<<>>), Absent(<<>>), Absent(<<>>), Absent(NoRange))
QueryMustNumber ==
    QueryMust("number", Absent(<<>>), Absent(<<>>), Absent(<<>>), Absent(NoRange))

\* mutant: a group with no terms counts as matched (all() instead of any())
RECURSIVE GroupMatchedVacuously(_, _, _)
GroupMatchedVacuously(query_lower, term_group, t) ==
    IF t > Len(term_group) THEN TRUE
    ELSE IF ~SearchWord(Lower(term_group[t]), query_lower) THEN FALSE
    ELSE GroupMatchedVacuously(query_lower, term_group, t + 1)

\* the inner loop of validate_contain_one_of, from term t of the group on
RECURSIVE GroupMatched(_, _, _)
GroupMatched(query_lower, term_group, t) ==
    IF t > Len(term_group) THEN FALSE
    ELSE IF SearchWord(Lower(term_group[t]), query_lower) THEN TRUE
    ELSE GroupMatched(query_lower, term_group, t + 1)

\* the outer loop of validate_contain_one_of, from group g on
RECURSIVE AllGroupsMatched(_, _, _)
AllGroupsMatched(query_lower, groups, g) ==
    IF g > Len(groups) THEN TRUE
    ELSE IF ~GroupMatched(query_lower, groups[g], 1) THEN FALSE
    ELSE AllGroupsMatched(query_lower, groups, g + 1)

validate_contain_one_of(q, query_must) ==
    IF query_must.type # "object" THEN "TypeError"
    ELSE IF "contain_one_of" \notin query_must.keys THEN "True"
    ELSE IF AllGroupsMatched(Lower(q), query_must.contain_one_of, 1)
         THEN "True" ELSE "False"

\* the loop of validate_contain_all_of, from term t on
RECURSIVE AllTermsFound(_, _, _)
AllTermsFound(query_lower, terms, t) ==
    IF t > Len(terms) THEN TRUE
    ELSE IF ~SearchWord(Lower(terms[t]), query_lower) THEN FALSE
    ELSE AllTermsFound(query_lower, terms, t + 1)

validate_contain_all_of(q, query_must) ==
    IF query_must.type # "object" THEN "TypeError"
    ELSE IF "contain_all_of" \notin query_must.keys THEN "True"
    ELSE IF AllTermsFound(Lower(q), query_must.contain_all_of, 1)
         THEN "True" ELSE "False"

validate_contain(q, query_must) ==
    IF query_must.type # "object" THEN "TypeError"
    ELSE IF "contain" \notin query_must.keys THEN "True"
    ELSE IF SearchWordOrPlural(Lower(query_must.contain), Lower(q))
         THEN "True" ELSE "False"

validate_contain_range(q, query_must) ==
    IF query_must.type # "object" THEN "TypeError"
    ELSE IF "contain_range" \notin query_must.keys THEN "True"
    ELSE LET range_spec == query_must.contain_range
         IN  IF range_spec.type # "object" THEN "TypeError"
             ELSE IF "min" \notin range_spec.keys THEN "KeyError"
             ELSE IF "max" \notin range_spec.keys THEN "KeyError"
             ELSE IF \E num \in ExtractNumbers(q) :
                        range_spec.min <= num /\ num <= range_spec.max
                  THEN "True" ELSE "False"

satisfies_query_must(q, query_must) ==
    IF query_must.type = "null" THEN "True"
    ELSE IF query_must.type = "object" /\ query_must.keys = {} THEN "True"
    ELSE IF validate_contain_one_of(q, query_must) # "True"
         THEN validate_contain_one_of(q, query_must)
    ELSE IF validate_contain_all_of(q, query_must) # "True"
         THEN validate_contain_all_of(q, query_must)
    ELSE IF validate_contain(q, query_must) # "True"
         THEN validate_contain(q, query_must)
    ELSE IF validate_contain_range(q, query_must) # "True"
         THEN validate_contain_range(q, query_must)
    ELSE "True"

\* one call of satisfies_query_must
Evaluate ==
    /\ pc = "evaluate"
    /\ verdict' = satisfies_query_must(query.text, predicate)
    /\ pc' = "evaluated"
    /\ UNCHANGED <<requestVars, cutoffVars, baseVars, loopVars, callVars, predicate, serverVars, utilVars>>

----------------------------------------------------------------------------
(* Gap-based cutoff selector: docling_query.py 283-345 (and its copy at    *)
(* 562-616 in the filtering path).                                         *)

\* mutant: the gap right after the first hit is considered too (range(1, ..))
GapsFromFirstHit(distances, kk) ==
    [j \in 1..Max2(Min2(Len(distances), kk) - 1, 0) |->
        <<j, distances[j + 1] - distances[j]>>]

\* mutant: the last checked position is left out (range(2, min(len, k) - 1))
GapsWithoutLast(distances, kk) ==
    [j \in 1..Max2(Min2(Len(distances), kk) - 3, 0) |->
        <<j + 1, distances[j + 2] - distances[j + 1]>>]

\* gaps = [(i, distances[i] - distances[i-1]) for i in range(2, min(len, k))]
Gaps(distances, kk) ==
    [j \in 1..Max2(Min2(Len(distances), kk) - 2, 0) |->
        <<j + 1, distances[j + 2] - distances[j + 1]>>]

\* max(gaps, key=lambda x: x[1]): the first element with the largest gap
MaxGap(gaps) ==
    gaps[CHOOSE g \in 1..Len(gaps) :
            /\ \A j \in 1..Len(gaps) : gaps[j][2] <= gaps[g][2]
            /\ \A j \in 1..(g - 1) : gaps[j][2] < gaps[g][2]]

\* keep_count = 1; for i in range(1, len): if d[i] <= cutoff: += 1 else break
RECURSIVE ThresholdScan(_, _, _, _)
ThresholdScan(distances, cutoff_distance, i, keep_count) ==
    IF i >= Len(distances) THEN keep_count
    ELSE IF distances[i + 1] <= cutoff_distance
         THEN ThresholdScan(distances, cutoff_distance, i + 1, keep_count + 1)
         ELSE keep_count

\* mutant: the minimum of two results is not enforced
ConstraintsWithoutMinimum(keep_count, kk, len) ==
    Min2(Min2(keep_count, kk), len)

\* keep_count = max(2, keep_count) if len > 1 else 1; min(.., k); min(.., len)
ApplyConstraints(keep_count, kk, len) ==
    Min2(Min2(IF len > 1 THEN Max2(2, keep_count) ELSE 1, kk), len)

\* the branch taken and the keep count before the constraints
CutoffDecision(distances, kk, threshold) ==
    LET gaps == Gaps(distances, kk)
        max_gap == IF Len(gaps) > 0 THEN MaxGap(gaps) ELSE <<0, 0>>
    IN  IF max_gap[2] >= GapThreshold
        THEN [strategy |-> "gap detection", keep_count |-> max_gap[1]]
        ELSE [strategy |-> "distance threshold",
              keep_count |-> ThresholdScan(distances,
                                           distances[1] + threshold, 1, 1)]

KeepCount(distances, kk, threshold) ==
    ApplyConstraints(CutoffDecision(distances, kk, threshold).keep_count,
                     kk, Len(distances))

\* if keep_count < len(ids): every list is cut to [:keep_count]
Trim(res, keep_count) ==
    IF keep_count < Len(res.ids)
    THEN [ids |-> Take(res.ids, keep_count),
          documents |-> Take(res.documents, keep_count),
          metadatas |-> Take(res.metadatas, keep_count),
          distances |-> Take(res.distances, keep_count)]
    ELSE res

\* the selector as the last step of _retrieve_base
ApplyCutoff ==
    /\ pc = "cutoff"
    /\ beforeCutoff' = results
    /\ IF Len(results.ids) > 0
       THEN /\ strategy_used' =
                 CutoffDecision(results.distances, k, distance_threshold).strategy
            /\ results' = Trim(results,
                 KeepCount(results.distances, k, distance_threshold))
       ELSE UNCHANGED <<results, strategy_used>>
    /\ pc' = "done"
    /\ UNCHANGED <<requestVars, baseVars, loopVars, callVars, predicateVars, serverVars, utilVars>>

----------------------------------------------------------------------------
(* The vector store.  A passage is known by its id; `collection` lists the *)
(* ids of the stored passages by increasing distance to the query.  A      *)
(* passage's metadata is [name, parent_category_id, has_uid, is_reference, *)
(* query_must]; parent_category_id 0 stands for "no parent category", and  *)
(* query_must is [stored, value] with stored one of "absent", "malformed"  *)
(* (a string json.loads rejects) and "json".                               *)

NoPredicate == [stored |-> "absent", value |-> QueryMustNull]
Malformed == [stored |-> "malformed", value |-> QueryMustNull]
Stored(query_must) == [stored |-> "json", value |-> query_must]

OnlyRange(range) ==
    QueryMust("object", Absent(<<>>), Absent(<<>>), Absent(<<>>), Present(range))
OnlyContain(term) ==
    QueryMust("object", Absent(<<>>), Absent(<<>>), Present(term), Absent(NoRange))

Meta(name, parent, has_uid, is_reference, query_must) ==
    [name |-> name, parent_category_id |-> parent, has_uid |-> has_uid,
     is_reference |-> is_reference, query_must |-> query_must]

\* the passages of the fixture store, as the embedders write them
Passage(id) ==
    CASE id = 1 -> Meta(<<"o">>, 0, TRUE, FALSE, NoPredicate)
      [] id = 2 -> Meta(<<>>, 0, TRUE, FALSE,
                        Stored(OnlyRange(RangeObject({"min", "max"}, 11, 11))))
      [] id = 3 -> Meta(<<"r">>, 9, TRUE, FALSE, NoPredicate)
      [] id = 4 -> Meta(<<"R", " ", "(", "y", ")">>, 0, TRUE, TRUE,
                        Stored(OnlyRange(RangeObject({"min", "max"}, 11, 11))))
      [] id = 5 -> Meta(<<"w">>, 9, TRUE, FALSE, Stored(OnlyContain(<<"w">>)))
      [] id = 6 -> Meta(<<>>, 0, FALSE, FALSE,
                        Stored(OnlyRange(RangeObject({"min", "max"}, 11, 11))))
      [] id = 7 -> Meta(<<"r", "w">>, 0, TRUE, FALSE, Malformed)
      [] id = 8 -> Meta(<<"o">>, 0, TRUE, FALSE,
                        Stored(OnlyRange(RangeObject({"min"}, 10, 0))))
      [] id = 10 -> Meta(<<"y">>, 0, TRUE, TRUE, Malformed)
      [] id = 11 -> Meta(<<"y">>, 0, TRUE, TRUE,
                         Stored(OnlyRange(RangeObject({"min"}, 10, 0))))
      [] OTHER -> Meta(<<"d">>, 0, TRUE, FALSE, NoPredicate)

PassageIds == 1..9

\* the distance of the store's rank-th nearest passage (hundredths)
RankDistance(rank) == 10 + 5 * (rank - 1) + (IF rank >= 4 THEN 10 ELSE 0)

RankOf(id) == CHOOSE r \in 1..Len(collection) : collection[r] = id
Distance(id) == RankDistance(RankOf(id))

\* metadata.get('uid', chunk_id): the embedders store the chunk id as uid
Uid(id) == id

\* the where clause {"uid": {"$nin": [...]}} on one stored passage
WhereAdmits(id, excluded) ==
    CASE where_semantics = "ignored" -> TRUE
      [] where_semantics = "missing_key_matches" ->
            ~Passage(id).has_uid \/ Uid(id) \notin excluded
      [] OTHER -> Passage(id).has_uid /\ Uid(id) \notin excluded

Hits(ids) ==
    [ids |-> ids,
     documents |-> ids,
     metadatas |-> ids,
     distances |-> [i \in 1..Len(ids) |-> Distance(ids[i])]]

\* collection.query(query_embeddings=[query_embedding], n_results=n)
StoreQuery(n) == Hits(Take(collection, n))

\* collection.query(..., n_results=n, where={"uid": {"$nin": excluded}})
StoreQueryWhere(n, excluded) ==
    LET Admitted(id) == WhereAdmits(id, excluded)
    IN  Hits(Take(SelectSeq(collection, Admitted), n))

----------------------------------------------------------------------------
(* Comparison detection, _retrieve_base lines 143-162.  Of the five        *)
(* patterns the model carries the second, (.+?)\s+vs\.?\s+(.+?)(?:\.|$|\?) *)
(* : no query of the model holds a word of the other four or a stop word.  *)

\* the end of the run of spaces that starts at Python position i
SpacesEnd(t, i) ==
    CHOOSE j \in i..Len(t) :
        /\ \A n \in (i + 1)..j : t[n] = " "
        /\ j = Len(t) \/ t[j + 1] # " "

\* \s+vs\.?\s+ from position a; start is where group 2 then begins
VersusTail(t, a) ==
    LET b == SpacesEnd(t, a)
    IN  IF ~(b > a /\ OccursAt(t, b, <<"v", "s">>))
        THEN [ok |-> FALSE, start |-> 0]
        ELSE LET c == IF OccursAt(t, b + 2, <<".">>) THEN b + 3 ELSE b + 2
                 d == SpacesEnd(t, c)
             IN  IF d = c THEN [ok |-> FALSE, start |-> 0]
                 ELSE IF d < Len(t) THEN [ok |-> TRUE, start |-> d]
                 ELSE [ok |-> d - 1 > c, start |-> d - 1]

\* (.+?)(?:\.|$|\?) from position d: the end of the lazy group
LazyEnd(t, d) ==
    CHOOSE e \in (d + 1)..Len(t) :
        /\ e = Len(t) \/ t[e + 1] \in {".", "?"}
        /\ \A f \in (d + 1)..(e - 1) : ~(t[f + 1] \in {".", "?"})

\* entities_mentioned after the loop over comparison_patterns
DetectEntities(text) ==
    LET t == Lower(text)
        ends == {a \in 1..Len(t) : VersusTail(t, a).ok}
    IN  IF ends = {} THEN <<>>
        ELSE LET a == CHOOSE x \in ends : \A y \in ends : x <= y
                 d == VersusTail(t, a).start
             IN  <<Strip(SubSeq(t, 1, a)), Strip(SubSeq(t, d + 1, LazyEnd(t, d)))>>

----------------------------------------------------------------------------
(* Result Augmenter: entity matching and repositioning, lines 176-239      *)

NoMatch == [found |-> FALSE, index |-> -1, quality |-> 0]

\* one pass of the loop over retrieved_names (lines 189-206) from index idx
RECURSIVE BestMatchFrom(_, _, _, _)
BestMatchFrom(names, entity, idx, best) ==
    IF idx >= Len(names) THEN best
    ELSE LET name == names[idx + 1]
             base_name == Lower(Strip(BeforeParenthesis(name)))
             entity_lower == Strip(Lower(entity))
         IN  IF base_name = entity_lower
             THEN BestMatchFrom(names, entity, idx + 1,
                    IF best.quality < 2
                    THEN [found |-> TRUE, index |-> idx, quality |-> 2]
                    ELSE best)
             ELSE IF /\ best.quality < 1
                     /\ \/ IsSubstring(entity_lower, name)
                        \/ IsSubstring(name, entity_lower)
             THEN BestMatchFrom(names, entity, idx + 1,
                    [found |-> TRUE, index |-> idx, quality |-> 1])
             ELSE BestMatchFrom(names, entity, idx + 1, best)

BestMatch(names, entity) == BestMatchFrom(names, entity, 0, NoMatch)

Matched(names, entity) ==
    BestMatch(names, entity).found /\ BestMatch(names, entity).index >= 0

\* retrieved_names: meta.get('name', '').lower() of every hit
RetrievedNames(res) ==
    [i \in 1..Len(res.metadatas) |-> Lower(Passage(res.metadatas[i]).name)]

\* matched_indices and missing_entities after the loop over the entities
RECURSIVE MatchedIndices(_, _)
MatchedIndices(names, entities) ==
    IF entities = <<>> THEN <<>>
    ELSE (IF Matched(names, Head(entities))
          THEN <<BestMatch(names, Head(entities)).index>> ELSE <<>>)
         \o MatchedIndices(names, Tail(entities))

MissingEntities(names, entities) ==
    LET Unmatched(entity) == ~Matched(names, entity)
    IN  SelectSeq(entities, Unmatched)

\* matched_indices.sort(reverse=True)
SortedReverse(s) ==
    CHOOSE t \in [1..Len(s) -> Range(s)] :
        /\ \A v \in Range(s) :
              Cardinality({i \in 1..Len(s) : s[i] = v})
                  = Cardinality({i \in 1..Len(t) : t[i] = v})
        /\ \A i \in 1..(Len(t) - 1) : t[i] >= t[i + 1]

DeleteHit(res, idx) ==
    [ids |-> DeleteAt(res.ids, idx),
     documents |-> DeleteAt(res.documents, idx),
     metadatas |-> DeleteAt(res.metadatas, idx),
     distances |-> DeleteAt(res.distances, idx)]

InsertHit(res, idx, item) ==
    [ids |-> InsertAt(res.ids, idx, item.id),
     documents |-> InsertAt(res.documents, idx, item.document),
     metadatas |-> InsertAt(res.metadatas, idx, item.metadata),
     distances |-> InsertAt(res.distances, idx, item.distance)]

AppendHit(res, item) == InsertHit(res, Len(res.ids), item)

ItemAt(res, idx) ==
    [id |-> res.ids[idx + 1], document |-> res.documents[idx + 1],
     metadata |-> res.metadatas[idx + 1], distance |-> res.distances[idx + 1]]

\* lines 219-231: copy out and delete the hit at every index in turn; reading
\* an index past the end of the shrunken list raises IndexError
RECURSIVE ExtractMatched(_, _, _)
ExtractMatched(res, indices, matched_items) ==
    IF indices = <<>>
    THEN [raised |-> FALSE, results |-> res, matched_items |-> matched_items]
    ELSE IF Head(indices) >= Len(res.ids)
    THEN [raised |-> TRUE, results |-> res, matched_items |-> matched_items]
    ELSE ExtractMatched(DeleteHit(res, Head(indices)), Tail(indices),
                        Append(matched_items, ItemAt(res, Head(indices))))

Reverse(s) == [i \in 1..Len(s) |-> s[Len(s) + 1 - i]]

\* mutant: the matched items are put back at the end of the list
RECURSIVE AppendMatched(_, _)
AppendMatched(res, items) ==
    IF items = <<>> THEN res
    ELSE AppendMatched(InsertHit(res, Len(res.ids), Head(items)), Tail(items))

\* lines 235-239: every item in turn goes to index 0
RECURSIVE InsertMatched(_, _)
InsertMatched(res, items) ==
    IF items = <<>> THEN res
    ELSE InsertMatched(InsertHit(res, 0, Head(items)), Tail(items))

\* retrieve() with enable_filtering false: _retrieve_base up to the main search
SearchBase ==
    /\ pc = "start"
    /\ ~enable_filtering
    /\ embedding_calls' = embedding_calls + 1
    /\ entities_mentioned' = DetectEntities(query.text)
    /\ expanded_k' = IF entities_mentioned' # <<>> THEN Min2(k * 3, 15) ELSE k
    /\ results' = StoreQuery(expanded_k')
    /\ fetched' = results'
    /\ store_queries' = store_queries + 1
    /\ pc' = IF entities_mentioned' # <<>> THEN "entities" ELSE "category"
    /\ UNCHANGED <<requestVars, strategy_used, beforeCutoff, matched_indices,
                   missing_entities, loopVars, entity_lookups, category_get, predicateVars, serverVars, utilVars>>

\* lines 176-239: match the entities against the hits and move the matches
Reposition ==
    /\ pc = "entities"
    /\ LET names == RetrievedNames(results)
           extracted == ExtractMatched(results, matched_indices', <<>>)
       IN  /\ matched_indices' =
                 SortedReverse(MatchedIndices(names, entities_mentioned))
           /\ missing_entities' = MissingEntities(names, entities_mentioned)
           /\ results' = IF extracted.raised THEN results
                         ELSE InsertMatched(extracted.results,
                                            Reverse(extracted.matched_items))
           /\ pc' = IF extracted.raised THEN "raised"
                    ELSE IF missing_entities' # <<>> THEN "lookup"
                    ELSE "category"
    /\ UNCHANGED <<requestVars, strategy_used, beforeCutoff, entities_mentioned,
                   expanded_k, fetched, loopVars, callVars, predicateVars, serverVars, utilVars>>

\* what the store can answer to a one-result search for an entity's embedding
EntityDistances == {12, 45}
LookupAnswers ==
    IF collection = <<>> THEN {<<>>}
    ELSE {<<[id |-> id, document |-> id, metadata |-> id, distance |-> d]>> :
             id \in Range(collection), d \in EntityDistances}

RECURSIVE AppendAnswers(_, _)
AppendAnswers(res, answers) ==
    IF answers = <<>> THEN res
    ELSE AppendAnswers(IF Head(answers) # <<>>
                       THEN AppendHit(res, Head(answers)[1]) ELSE res,
                       Tail(answers))

\* mutant: a targeted search that finds nothing is issued a second time
LookupMissingRetried ==
    /\ pc = "lookup"
    /\ \E answers \in [1..Len(missing_entities) -> LookupAnswers] :
          /\ results' = AppendAnswers(results, answers)
          /\ LET tries == Len(missing_entities)
                           + Cardinality({i \in 1..Len(answers) : answers[i] = <<>>})
             IN  /\ embedding_calls' = embedding_calls + tries
                 /\ entity_lookups' = entity_lookups + tries
    /\ pc' = "category"
    /\ UNCHANGED <<requestVars, strategy_used, beforeCutoff, baseVars,
                   loopVars, store_queries, category_get, predicateVars, serverVars, utilVars>>

\* lines 241-253: one targeted search per missing entity, appended at the end
LookupMissing ==
    /\ pc = "lookup"
    /\ \E answers \in [1..Len(missing_entities) -> LookupAnswers] :
          results' = AppendAnswers(results, answers)
    /\ embedding_calls' = embedding_calls + Len(missing_entities)
    /\ entity_lookups' = entity_lookups + Len(missing_entities)
    /\ pc' = "category"
    /\ UNCHANGED <<requestVars, strategy_used, beforeCutoff, baseVars,
                   loopVars, store_queries, category_get, predicateVars, serverVars, utilVars>>

\* collection.get(ids=[category_id]), line 264: it returns the record, raises,
\* or returns a record without its documents or without its metadatas, so
\* that line 268 or line 269 raises behind the inserts already made
GetOutcomes == {"returns", "raises", "no_documents", "no_metadatas"}

\* lines 255-274: the parent category of the top hit goes to index 1; whatever
\* is raised is swallowed at 272-274
InjectCategory ==
    /\ pc = "category"
    /\ IF /\ results.metadatas # <<>>
          /\ Passage(results.metadatas[1]).parent_category_id # 0
          /\ Passage(results.metadatas[1]).parent_category_id
                \notin Range(results.ids)
       THEN LET category_id == Passage(results.metadatas[1]).parent_category_id
            IN  \E get \in GetOutcomes :
                   /\ category_get' =
                         IF get # "raises" /\ category_id \notin Range(collection)
                         THEN "empty" ELSE get
                   /\ results' =
                         IF get = "raises" \/ category_id \notin Range(collection)
                         THEN results
                         ELSE IF get = "no_documents"
                         THEN [results EXCEPT !.ids = InsertAt(@, 1, category_id)]
                         ELSE IF get = "no_metadatas"
                         THEN [results EXCEPT
                                  !.ids = InsertAt(@, 1, category_id),
                                  !.documents = InsertAt(@, 1, category_id)]
                         ELSE InsertHit(results, 1,
                                 [id |-> category_id, document |-> category_id,
                                  metadata |-> category_id,
                                  distance |-> results.distances[1] + Epsilon])
       ELSE UNCHANGED <<results, category_get>>
    /\ pc' = "cutoff"
    /\ UNCHANGED <<requestVars, strategy_used, beforeCutoff, baseVars,
                   loopVars, embedding_calls, store_queries, entity_lookups,
                   predicateVars, serverVars, utilVars>>

----------------------------------------------------------------------------
(* Iterative filter controller: _retrieve_with_filtering, lines 349-618    *)

Chunk(batch, i) ==
    [id |-> batch.ids[i], metadata |-> batch.metadatas[i],
     document |-> batch.documents[i], distance |-> batch.distances[i]]

\* mutant: a kept hit's uid is not added to kept_ids
KeepUntracked(st, chunk, uid) ==
    [st EXCEPT !.newly_kept = Append(@, chunk)]

Keep(st, chunk, uid) ==
    [st EXCEPT !.newly_kept = Append(@, chunk), !.kept_ids = @ \cup {uid}]

Exclude(st, uid) ==
    [st EXCEPT !.newly_excluded = Append(@, uid), !.excluded_ids = @ \cup {uid}]

\* mutant: the predicate of a reference passage is evaluated like any other
RECURSIVE FilterBatchAlsoReferences(_, _, _)
FilterBatchAlsoReferences(batch, i, st) ==
    IF i > Len(batch.ids) THEN st
    ELSE LET chunk_id == batch.ids[i]
             metadata == Passage(batch.metadatas[i])
             uid == IF metadata.has_uid THEN Uid(chunk_id) ELSE chunk_id
             outcome == satisfies_query_must(query.text, metadata.query_must.value)
         IN  IF uid \in st.kept_ids
             THEN FilterBatchAlsoReferences(batch, i + 1, st)
             ELSE IF metadata.query_must.stored \in {"absent", "malformed"}
             THEN FilterBatchAlsoReferences(batch, i + 1,
                                            Keep(st, Chunk(batch, i), uid))
             ELSE IF outcome = "True"
             THEN FilterBatchAlsoReferences(batch, i + 1,
                                            Keep(st, Chunk(batch, i), uid))
             ELSE IF outcome = "False"
             THEN FilterBatchAlsoReferences(batch, i + 1, Exclude(st, uid))
             ELSE [st EXCEPT !.raised = outcome]

\* lines 423-496: the loop over the hits of one batch, from the i-th hit on;
\* only json.JSONDecodeError is caught, any other exception leaves the loop
RECURSIVE FilterBatch(_, _, _)
FilterBatch(batch, i, st) ==
    IF i > Len(batch.ids) THEN st
    ELSE LET chunk_id == batch.ids[i]
             metadata == Passage(batch.metadatas[i])
             uid == IF metadata.has_uid THEN Uid(chunk_id) ELSE chunk_id
             outcome == satisfies_query_must(query.text, metadata.query_must.value)
         IN  IF uid \in st.kept_ids THEN FilterBatch(batch, i + 1, st)
             ELSE IF metadata.query_must.stored = "absent" \/ metadata.is_reference
             THEN FilterBatch(batch, i + 1, Keep(st, Chunk(batch, i), uid))
             ELSE IF metadata.query_must.stored = "malformed"
             THEN FilterBatch(batch, i + 1, Keep(st, Chunk(batch, i), uid))
             ELSE IF outcome = "True"
             THEN FilterBatch(batch, i + 1, Keep(st, Chunk(batch, i), uid))
             ELSE IF outcome = "False"
             THEN FilterBatch(batch, i + 1, Exclude(st, uid))
             ELSE [st EXCEPT !.raised = outcome]

\* list.sort(key=lambda x: x['distance']): stable, ascending
RECURSIVE InsertSorted(_, _)
InsertSorted(sorted, chunk) ==
    IF sorted = <<>> THEN <<chunk>>
    ELSE IF sorted[Len(sorted)].distance <= chunk.distance
    THEN Append(sorted, chunk)
    ELSE Append(InsertSorted(SubSeq(sorted, 1, Len(sorted) - 1), chunk),
                sorted[Len(sorted)])

RECURSIVE SortByDistance(_)
SortByDistance(chunks) ==
    IF chunks = <<>> THEN <<>>
    ELSE InsertSorted(SortByDistance(SubSeq(chunks, 1, Len(chunks) - 1)),
                      chunks[Len(chunks)])

\* lines 547-552
ResultsOf(chunks) ==
    [ids |-> [i \in 1..Len(chunks) |-> chunks[i].id],
     documents |-> [i \in 1..Len(chunks) |-> chunks[i].document],
     metadatas |-> [i \in 1..Len(chunks) |-> chunks[i].metadata],
     distances |-> [i \in 1..Len(chunks) |-> chunks[i].distance]]

\* retrieve() with enable_filtering true: lines 375-383
StartFiltering ==
    /\ pc = "start"
    /\ enable_filtering
    /\ excluded_ids' = {}
    /\ kept_ids' = {}
    /\ all_kept_chunks' = <<>>
    /\ iteration' = 0
    /\ embedding_calls' = embedding_calls + 1
    /\ pc' = "loop"
    /\ UNCHANGED <<requestVars, cutoffVars, baseVars, newly_kept,
                   newly_excluded, store_queries, entity_lookups, category_get, predicateVars, serverVars, utilVars>>

\* mutant: a round without rejections asks for another one
FilterRoundUntilK ==
    /\ pc = "loop"
    /\ iteration < max_iterations
    /\ store_queries' = store_queries + 1
    /\ LET all_seen_ids == excluded_ids \cup kept_ids
           batch == IF all_seen_ids # {} THEN StoreQueryWhere(k, all_seen_ids)
                    ELSE StoreQuery(k)
           st == FilterBatch(batch, 1,
                    [kept_ids |-> kept_ids, excluded_ids |-> excluded_ids,
                     newly_kept |-> <<>>, newly_excluded |-> <<>>,
                     raised |-> "none"])
       IN  IF batch.ids = <<>>
           THEN /\ pc' = "finalise"
                /\ UNCHANGED loopVars
           ELSE /\ kept_ids' = st.kept_ids
                /\ excluded_ids' = st.excluded_ids
                /\ newly_kept' = st.newly_kept
                /\ newly_excluded' = st.newly_excluded
                /\ IF st.raised # "none"
                   THEN /\ pc' = "raised"
                        /\ UNCHANGED <<all_kept_chunks, iteration>>
                   ELSE /\ all_kept_chunks' = all_kept_chunks \o st.newly_kept
                        /\ IF Len(all_kept_chunks') >= k
                           THEN /\ pc' = "finalise"
                                /\ UNCHANGED iteration
                           ELSE /\ pc' = "loop"
                                /\ iteration' = iteration + 1
    /\ UNCHANGED <<requestVars, cutoffVars, baseVars, embedding_calls,
                   entity_lookups, category_get, predicateVars, serverVars, utilVars>>

\* one pass of the while loop, lines 388-521
FilterRound ==
    /\ pc = "loop"
    /\ iteration < max_iterations
    /\ store_queries' = store_queries + 1
    /\ LET all_seen_ids == excluded_ids \cup kept_ids
           batch == IF all_seen_ids # {} THEN StoreQueryWhere(k, all_seen_ids)
                    ELSE StoreQuery(k)
           st == FilterBatch(batch, 1,
                    [kept_ids |-> kept_ids, excluded_ids |-> excluded_ids,
                     newly_kept |-> <<>>, newly_excluded |-> <<>>,
                     raised |-> "none"])
       IN  IF batch.ids = <<>>
           THEN /\ pc' = "finalise"
                /\ UNCHANGED loopVars
           ELSE /\ kept_ids' = st.kept_ids
                /\ excluded_ids' = st.excluded_ids
                /\ newly_kept' = st.newly_kept
                /\ newly_excluded' = st.newly_excluded
                /\ IF st.raised # "none"
                   THEN /\ pc' = "raised"
                        /\ UNCHANGED <<all_kept_chunks, iteration>>
                   ELSE /\ all_kept_chunks' = all_kept_chunks \o st.newly_kept
                        /\ IF \/ Len(all_kept_chunks') >= k
                              \/ Len(st.newly_excluded) = 0
                           THEN /\ pc' = "finalise"
                                /\ UNCHANGED iteration
                           ELSE /\ pc' = "loop"
                                /\ iteration' = iteration + 1
    /\ UNCHANGED <<requestVars, cutoffVars, baseVars, embedding_calls,
                   entity_lookups, category_get, predicateVars, serverVars, utilVars>>

\* the while condition fails: the budget is spent
LoopExhausted ==
    /\ pc = "loop"
    /\ iteration >= max_iterations
    /\ pc' = "finalise"
    /\ UNCHANGED <<requestVars, cutoffVars, baseVars, loopVars, callVars,
                   predicateVars, serverVars, utilVars>>

\* mutant: a request that ends short of k hits returns the empty result
FinaliseDropsShort ==
    /\ pc = "finalise"
    /\ IF Len(all_kept_chunks) < k
       THEN /\ results' = EmptyResults
            /\ beforeCutoff' = EmptyResults
            /\ UNCHANGED strategy_used
       ELSE LET filtered_results ==
                    ResultsOf(Take(SortByDistance(all_kept_chunks), k))
            IN  /\ beforeCutoff' = filtered_results
                /\ strategy_used' =
                      CutoffDecision(filtered_results.distances, k,
                                     distance_threshold).strategy
                /\ results' = Trim(filtered_results,
                      KeepCount(filtered_results.distances, k, distance_threshold))
    /\ pc' = "done"
    /\ UNCHANGED <<requestVars, baseVars, loopVars, callVars, predicateVars, serverVars, utilVars>>

\* lines 533-618: sort, truncate to k, cutoff
Finalise ==
    /\ pc = "finalise"
    /\ IF all_kept_chunks = <<>>
       THEN /\ results' = EmptyResults
            /\ beforeCutoff' = EmptyResults
            /\ UNCHANGED strategy_used
       ELSE LET final_chunks == Take(SortByDistance(all_kept_chunks), k)
                filtered_results == ResultsOf(final_chunks)
            IN  /\ beforeCutoff' = filtered_results
                /\ strategy_used' =
                      CutoffDecision(filtered_results.distances, k,
                                     distance_threshold).strategy
                /\ results' = Trim(filtered_results,
                      KeepCount(filtered_results.distances, k, distance_threshold))
    /\ pc' = "done"
    /\ UNCHANGED <<requestVars, baseVars, loopVars, callVars, predicateVars, serverVars, utilVars>>

----------------------------------------------------------------------------
(* The API server: api.py serves every request with the one engine that    *)
(* get_rag() returns; the handler and DnDRAG.query reach the output buffer *)
(* through the engine's attribute each time they use it.                   *)

Requests == {1, 2}

NoResponse == [sent |-> FALSE, answer |-> 0, buffer |-> 0, diagnostics |-> <<>>]

\* RAGOutput.__init__
NewBuffer == [answer |-> 0, diagnostics |-> <<>>]

\* self.output.info(msg)
Info(msg) == [buffers EXCEPT ![output].diagnostics = Append(@, msg)]

Step(r, from, to) ==
    /\ request_pc[r] = from
    /\ request_pc' = [request_pc EXCEPT ![r] = to]

RetrievalUnchanged ==
    UNCHANGED <<requestVars, pc, cutoffVars, baseVars, loopVars, callVars,
                predicateVars, utilVars>>

\* api.py line 250: rag_instance.output = RAGOutput()
CreateOutput(r) ==
    /\ Step(r, "received", "question")
    /\ buffers' = Append(buffers, NewBuffer)
    /\ output' = Len(buffers) + 1
    /\ UNCHANGED response
    /\ RetrievalUnchanged

\* DnDRAG.query lines 709-715: the question goes to the trace
LogQuestion(r) ==
    /\ Step(r, "question", "retrieve")
    /\ buffers' = Info(<<r, "question">>)
    /\ UNCHANGED <<output, response>>
    /\ RetrievalUnchanged

\* lines 716-728: retrieve, then the retrieved chunks go to the trace
LogRetrieved(r) ==
    /\ Step(r, "retrieve", "generate")
    /\ buffers' = Info(<<r, "chunks">>)
    /\ UNCHANGED <<output, response>>
    /\ RetrievalUnchanged

\* lines 739-749: generate, then the answer goes to the trace
LogAnswer(r) ==
    /\ Step(r, "generate", "set_answer")
    /\ buffers' = Info(<<r, "answer">>)
    /\ UNCHANGED <<output, response>>
    /\ RetrievalUnchanged

\* line 752: self.output.set_answer(answer)
SetAnswer(r) ==
    /\ Step(r, "set_answer", "to_dict")
    /\ buffers' = [buffers EXCEPT ![output].answer = r]
    /\ UNCHANGED <<output, response>>
    /\ RetrievalUnchanged

\* line 753: self.output.to_dict() copies the answer and hands out the
\* buffer's own diagnostics list
ToDict(r) ==
    /\ Step(r, "to_dict", "respond")
    /\ response' = [response EXCEPT ![r] =
          [sent |-> FALSE, answer |-> buffers[output].answer,
           buffer |-> output, diagnostics |-> <<>>]]
    /\ UNCHANGED <<output, buffers>>
    /\ RetrievalUnchanged

\* api.py: jsonify(result) serialises the list as it is at that moment
Respond(r) ==
    /\ Step(r, "respond", "sent")
    /\ response' = [response EXCEPT ![r] =
          [@ EXCEPT !.sent = TRUE,
                    !.diagnostics = buffers[response[r].buffer].diagnostics]]
    /\ UNCHANGED <<output, buffers>>
    /\ RetrievalUnchanged

----------------------------------------------------------------------------
(* Values of the variables a specification does not exercise               *)

IdleCutoff ==
    /\ results = EmptyResults
    /\ strategy_used = "none"
    /\ beforeCutoff = EmptyResults

IdleBase ==
    /\ entities_mentioned = <<>>
    /\ expanded_k = 0
    /\ matched_indices = <<>>
    /\ missing_entities = <<>>
    /\ fetched = EmptyResults

IdleLoop ==
    /\ excluded_ids = {}
    /\ kept_ids = {}
    /\ all_kept_chunks = <<>>
    /\ iteration = 0
    /\ newly_kept = <<>>
    /\ newly_excluded = <<>>

IdleCalls ==
    /\ embedding_calls = 0
    /\ store_queries = 0
    /\ entity_lookups = 0
    /\ category_get = "none"

IdlePredicate ==
    /\ predicate = QueryMustNull
    /\ verdict = "none"

IdleServer ==
    /\ output = 0
    /\ buffers = <<>>
    /\ request_pc = [r \in Requests |-> "none"]
    /\ response = [r \in Requests |-> NoResponse]

\* no cost tracker has been constructed
NoTracker ==
    [daily_budget |-> 0, alert_email |-> FALSE, current_day |-> 0,
     daily_cost |-> 0, user_costs |-> <<>>, alert_80_sent |-> FALSE]

\* no token validator has been constructed and no API request received
IdleGate ==
    /\ validator = [cache_ttl |-> 0, cache |-> <<>>]
    /\ validations = <<>>
    /\ handled = <<>>

IdleUtils ==
    /\ IdleGate
    /\ limiter = [capacity |-> 0, refill_rate |-> 0, daily_limit |-> 0]
    /\ files = <<>>
    /\ locks = <<>>
    /\ calls = <<>>
    /\ now = 0
    /\ today = 0
    /\ tracker = NoTracker
    /\ emails = <<>>

----------------------------------------------------------------------------
(* The evaluator on its own: every text up to MaxQueryLen over Alphabet    *)
(* against a family of query_must values.                                  *)

Texts == UNION {[1..n -> Alphabet] : n \in 0..MaxQueryLen}

TermA == <<"a">>
TermUpperA == <<"A">>
Term1 == <<"1">>

OneOfChoices ==
    { <<>>,
      << <<>> >>,
      << <<TermA>> >>,
      << <<TermA>>, <<Term1>> >>,
      << <<TermUpperA, Term1>> >> }

AllOfChoices == { <<>>, <<TermA, Term1>>, <<TermUpperA>> }

ContainChoices == { TermA }

RangeChoices ==
    { RangeObject({"min", "max"}, 1, 1),
      RangeObject({"min", "max"}, 2, 11),
      RangeObject({"min"}, 1, 0),
      RangeObject({"max"}, 0, 1),
      RangeNumber }

Predicates ==
    {QueryMustNull, QueryMustNumber} \cup
    {QueryMust("object", o, a, c, r) :
        o \in {Absent(<<>>)} \cup {Present(v) : v \in OneOfChoices},
        a \in {Absent(<<>>)} \cup {Present(v) : v \in AllOfChoices},
        c \in {Absent(<<>>)} \cup {Present(v) : v \in ContainChoices},
        r \in {Absent(NoRange)} \cup {Present(v) : v \in RangeChoices}}

InitPredicate ==
    /\ \E t \in Texts : query = [text |-> t]
    /\ k = 0
    /\ distance_threshold = 0
    /\ max_iterations = 0
    /\ enable_filtering = FALSE
    /\ collection = <<>>
    /\ where_semantics = "ignored"
    /\ pc = "evaluate"
    /\ IdleCutoff
    /\ IdleBase
    /\ IdleLoop
    /\ IdleCalls
    /\ predicate \in Predicates
    /\ verdict = "none"
    /\ IdleServer
    /\ IdleUtils

NextPredicate == Evaluate

SpecPredicate == InitPredicate /\ [][NextPredicate]_vars

\* the integers written as maximal runs of digits in the text
MaximalDigitRunValues(text) ==
    {ToInt(SubSeq(text, i + 1, j)) :
        <<i, j>> \in {m \in (0..Len(text)) \X (0..Len(text)) :
            /\ IsDigitRun(text, m[1], m[2])
            /\ ~(m[1] > 0 /\ text[m[1]] \in DigitChars)
            /\ ~(m[2] < Len(text) /\ text[m[2] + 1] \in DigitChars)}}

RangeWellFormed(query_must) ==
    "contain_range" \in query_must.keys =>
        /\ query_must.contain_range.type = "object"
        /\ {"min", "max"} \subseteq query_must.contain_range.keys

\* C9: contain_range passes exactly when some maximal run of digits in the
\* query text, read as an integer, lies in [min, max], bounds included; this
\* covers a digit run directly followed or preceded by letters, and a query
\* with no digits fails.
C9_EveryDigitRunCounts ==
    ( /\ pc = "evaluated"
      /\ predicate.type = "object"
      /\ predicate.keys = {"contain_range"}
      /\ RangeWellFormed(predicate) ) =>
        ( verdict = "True" <=>
            \E num \in MaximalDigitRunValues(query.text) :
                /\ predicate.contain_range.min <= num
                /\ num <= predicate.contain_range.max )

\* each clause as the claim words it
OneOfPasses(q, groups) ==
    \A g \in 1..Len(groups) :
        \E t \in 1..Len(groups[g]) : SearchWord(Lower(groups[g][t]), Lower(q))
AllOfPasses(q, terms) ==
    \A t \in 1..Len(terms) : SearchWord(Lower(terms[t]), Lower(q))

----------------------------------------------------------------------------
(* The selector on its own: every distance list up to MaxLen over a small  *)
(* value set, plus the two scenario lists of the specification.            *)

DistanceValues == {10, 15, 16, 70}
ScenarioLists == {<<10, 15, 16, 30, 32>>, <<10, 20, 25, 70>>}
Thresholds == {0, 5, 40}

DistanceLists ==
    ScenarioLists \cup UNION {[1..n -> DistanceValues] : n \in 0..MaxLen}

HitsWithDistances(d) ==
    [ids |-> [i \in 1..Len(d) |-> i],
     documents |-> [i \in 1..Len(d) |-> i],
     metadatas |-> [i \in 1..Len(d) |-> i],
     distances |-> d]

InitCutoff ==
    /\ query = NoQuery
    /\ k \in 1..MaxK
    /\ distance_threshold \in Thresholds
    /\ max_iterations = 0
    /\ enable_filtering = FALSE
    /\ collection = <<>>
    /\ where_semantics = "ignored"
    /\ pc = "cutoff"
    /\ \E d \in DistanceLists : results = HitsWithDistances(d)
    /\ strategy_used = "none"
    /\ beforeCutoff = EmptyResults
    /\ IdleBase
    /\ IdleLoop
    /\ IdleCalls
    /\ IdlePredicate
    /\ IdleUtils
    /\ IdleServer

NextCutoff == ApplyCutoff

SpecCutoff == InitCutoff /\ [][NextCutoff]_vars

\* the gap that ends at Python position i, and the positions the selector checks
GapAt(d, i) == d[i + 1] - d[i]
CheckedPositions(d, kk) == 2..(Min2(Len(d), kk) - 1)

\* C5 as stated: for every distance list longer than 1 and every k and
\* distanceThreshold the selector returns at least 2 hits and at most
\* min(k, len) hits.
C5_AtLeastTwoForEveryK ==
    (pc = "done" /\ Len(beforeCutoff.ids) > 1) =>
        /\ Len(results.ids) >= 2
        /\ Len(results.ids) <= Min2(k, Len(beforeCutoff.ids))

\* C5 amended: for every distance list longer than 1, every k >= 1 and every
\* distanceThreshold the selector returns at least min(2, k) hits and at
\* most min(k, len) hits.
C5_CutoffBounds ==
    (pc = "done" /\ Len(beforeCutoff.ids) > 1) =>
        /\ Len(results.ids) >= Min2(2, k)
        /\ Len(results.ids) <= Min2(k, Len(beforeCutoff.ids))

C5_Witness ==
    /\ pc = "done"
    /\ Len(beforeCutoff.ids) > 2
    /\ k = 1
    /\ Len(results.ids) = 1

C8_ThresholdBranchTaken ==
    ( /\ pc = "done"
      /\ beforeCutoff.distances = <<10, 20, 25, 70>>
      /\ k = 5
      /\ distance_threshold = 40 ) =>
        /\ \A p \in CheckedPositions(beforeCutoff.distances, k) :
               GapAt(beforeCutoff.distances, p) < 6
        /\ strategy_used = "distance threshold"
        /\ Len(results.ids) = 3

\* C8 amended: for that input the checked gap at position 3 is 0.45, which
\* reaches the 0.06 cliff threshold, so the selector takes the gap branch
\* with the cliff at position 3 and keeps 3 hits.
C8_GapBranchTaken ==
    ( /\ pc = "done"
      /\ beforeCutoff.distances = <<10, 20, 25, 70>>
      /\ k = 5
      /\ distance_threshold = 40 ) =>
        /\ 3 \in CheckedPositions(beforeCutoff.distances, k)
        /\ GapAt(beforeCutoff.distances, 3) = 45
        /\ strategy_used = "gap detection"
        /\ results.distances = <<10, 20, 25>>

C8_Witness ==
    /\ pc = "done"
    /\ beforeCutoff.distances = <<10, 20, 25, 70>>
    /\ k = 5
    /\ distance_threshold = 40
    /\ Len(results.ids) = 3

----------------------------------------------------------------------------
(* Retrieval requests against the fixture store                            *)

MaxHits == 4
MaxIterations == 3

PlainQuery == [text |-> <<"a", " ", "1">>]
ComparisonQuery == [text |-> <<"R", " ", "v", "s", " ", "w">>]
Queries == {PlainQuery, ComparisonQuery}

\* the default distance_threshold of retrieve(), 0.4
DefaultThreshold == 40

\* every ranking of up to MaxHits distinct passages
Rankings(ids) ==
    {s \in UNION {[1..n -> ids] : n \in 0..MaxHits} :
        \A i, j \in 1..Len(s) : i # j => s[i] # s[j]}

\* the passages of a set in the fixture's order
RECURSIVE InFixtureOrder(_, _)
InFixtureOrder(ids, from) ==
    IF from > 9 THEN <<>>
    ELSE (IF from \in ids THEN <<from>> ELSE <<>>)
         \o InFixtureOrder(ids, from + 1)

BaseIds == {1, 2, 3, 4, 5, 7, 8, 9}

InitBase ==
    /\ query \in Queries
    /\ k \in 1..MaxK
    /\ distance_threshold = DefaultThreshold
    /\ max_iterations = MaxIterations
    /\ enable_filtering = FALSE
    /\ collection \in Rankings(BaseIds)
    /\ where_semantics = "ignored"
    /\ pc = "start"
    /\ IdleCutoff
    /\ IdleBase
    /\ IdleLoop
    /\ IdleCalls
    /\ IdlePredicate
    /\ IdleUtils
    /\ IdleServer

NextBase ==
    \/ SearchBase
    \/ Reposition
    \/ LookupMissing
    \/ InjectCategory
    \/ ApplyCutoff

SpecBase == InitBase /\ [][NextBase]_vars

InitFiltered ==
    /\ query \in Queries
    /\ k \in 1..MaxK
    /\ distance_threshold = DefaultThreshold
    /\ max_iterations \in 1..MaxIterations
    /\ enable_filtering = TRUE
    /\ \E ids \in SUBSET PassageIds : collection = InFixtureOrder(ids, 1)
    /\ where_semantics \in {"ignored", "missing_key_matches", "missing_key_hidden"}
    /\ pc = "start"
    /\ IdleCutoff
    /\ IdleBase
    /\ IdleLoop
    /\ IdleCalls
    /\ IdlePredicate
    /\ IdleUtils
    /\ IdleServer

NextFiltered ==
    \/ StartFiltering
    \/ FilterRound
    \/ LoopExhausted
    \/ Finalise

SpecFiltered == InitFiltered /\ [][NextFiltered]_vars

----------------------------------------------------------------------------
(* Two requests served at the same time by the threaded server             *)

InitConcurrent ==
    /\ query = NoQuery
    /\ k = 0
    /\ distance_threshold = 0
    /\ max_iterations = 0
    /\ enable_filtering = TRUE
    /\ collection = <<>>
    /\ where_semantics = "ignored"
    /\ pc = "served"
    /\ IdleCutoff
    /\ IdleBase
    /\ IdleLoop
    /\ IdleCalls
    /\ IdlePredicate
    /\ IdleUtils
    /\ output = 0
    /\ buffers = <<>>
    /\ request_pc = [r \in Requests |-> "received"]
    /\ response = [r \in Requests |-> NoResponse]

NextConcurrent ==
    \E r \in Requests :
        \/ CreateOutput(r)
        \/ LogQuestion(r)
        \/ LogRetrieved(r)
        \/ LogAnswer(r)
        \/ SetAnswer(r)
        \/ ToDict(r)
        \/ Respond(r)

SpecConcurrent == InitConcurrent /\ [][NextConcurrent]_vars

\* the state right after the repositioning step of a comparison query
AfterReposition ==
    /\ ~enable_filtering
    /\ entities_mentioned # <<>>
    /\ \/ pc = "lookup"
       \/ pc = "category" /\ missing_entities = <<>>

\* the hit at Python index 0, then the hits at the matched indices in their
\* original order, then the other hits in their original order
TopThenMatched(ids, matched) ==
    LET behind == [i \in 1..(Len(ids) - 1) |-> i]
        IsMatched(i) == i \in matched
        IsOther(i) == i \notin matched
        At(indices) == [n \in 1..Len(indices) |-> ids[indices[n] + 1]]
    IN  <<ids[1]>> \o At(SelectSeq(behind, IsMatched))
                   \o At(SelectSeq(behind, IsOther))

\* C1 as stated: in base retrieval of a comparison query, after entity
\* repositioning the hit the store returned at position 0 is still at
\* position 0 and the matched hits follow it directly in their original
\* relative order.
C1_MatchedFollowTopInOrder ==
    (AfterReposition /\ matched_indices # <<>>)
        => results.ids = TopThenMatched(fetched.ids, Range(matched_indices))

\* a stored query_must the evaluator cannot use: unparseable, not an object,
\* or a contain_range that is not an object or lacks min or max
IllFormed(id) ==
    LET query_must == Passage(id).query_must
    IN  \/ query_must.stored = "malformed"
        \/ /\ query_must.stored = "json"
           /\ \/ query_must.value.type \notin {"object", "null"}
              \/ /\ "contain_range" \in query_must.value.keys
                 /\ \/ query_must.value.contain_range.type # "object"
                    \/ ~({"min", "max"} \subseteq query_must.value.contain_range.keys)

\* C2 as stated: during the filtering step a hit whose query_must cannot be
\* parsed, lacks required sub-fields or has the wrong shape is kept (never
\* rejected), and the request does not raise.
C2_IllFormedIsKept ==
    enable_filtering =>
        /\ pc # "raised"
        /\ \A uid \in excluded_ids : ~IllFormed(uid)

\* the filtered request has returned or raised: no step of it is left
Stopped == pc \notin {"start", "loop", "finalise"}

\* C3 as stated: whatever the store answers and whatever predicate
\* evaluation yields, _retrieve_with_filtering reaches its final stage after
\* at most max_iterations vector-store queries: the budget is never
\* overdrawn, and a request that has stopped has passed its final stage.
C3_FinalStageWithinBudget ==
    enable_filtering =>
        /\ store_queries <= max_iterations
        /\ Stopped => pc = "done"

\* C4 as stated: with filtering enabled the kept hits pass through the Result
\* Augmenter before the cutoff selector; so when the top hit handed to the
\* selector names a parent category the store holds, that category is among
\* the hits handed to the selector.
C4_CategoryInjectedBeforeCutoff ==
    (enable_filtering /\ pc = "done" /\ beforeCutoff.ids # <<>>)
        => LET parent == Passage(beforeCutoff.metadatas[1]).parent_category_id
           IN  (parent # 0 /\ parent \in Range(collection))
                   => parent \in Range(beforeCutoff.ids)

\* what request r writes to the trace when it is served alone
OwnTrace(r) == <<<<r, "question">>, <<r, "chunks">>, <<r, "answer">>>>

\* C6 as stated: two requests served concurrently by the same engine do not
\* interfere; the answer and the diagnostic trace sent back for a request
\* hold exactly what that request's own execution produced.
C6_ResponsesIsolated ==
    \A r \in Requests :
        response[r].sent =>
            /\ response[r].answer = r
            /\ response[r].diagnostics = OwnTrace(r)

\* retrieve() has returned its list
Returned == pc = "done"

\* the positions the Result Augmenter fills by repositioning and injection:
\* two entities and one parent category
TopFew == {1, 2, 3}

\* C11 as stated: in the list retrieve returns, distances are non-decreasing
\* except at hits placed by the Result Augmenter, and every such hit sits
\* within the top few positions, never at the tail: behind the top few
\* positions the list is in ascending order.
C11_OrderedBehindTopFew ==
    Returned =>
        \A i, j \in 1..Len(results.distances) :
            (i \notin TopFew /\ i < j)
                => results.distances[i] <= results.distances[j]

\* the hits the targeted lookups appended to the list handed to the selector
AppendedCount == IF collection = <<>> THEN 0 ELSE entity_lookups

\* 1 when a parent category was injected, else 0
InjectedCount ==
    Len(beforeCutoff.ids) - Len(fetched.ids) - AppendedCount

\* the positions of the list handed to the selector that hold a hit the
\* Result Augmenter placed: the repositioned matches in front (the second one
\* pushed back by an injected category), the category at Python index 1, and
\* the appended lookups at the tail
PlacedPositions ==
    {IF p = 1 THEN 1 ELSE p + InjectedCount : p \in 1..Len(matched_indices)}
    \cup {p \in {2} : InjectedCount = 1}
    \cup {p \in 1..Len(beforeCutoff.ids) :
             p > Len(beforeCutoff.ids) - AppendedCount}

\* C11 amended: in the list retrieve returns, distances are non-decreasing
\* over the hits the Result Augmenter did not place; a placed hit is either
\* a repositioned match or an injected category, within the top three
\* positions, or the result of a targeted entity lookup, appended behind
\* every hit of the main search.
C11_OrderedExceptPlaced ==
    Returned =>
        /\ \A p \in PlacedPositions :
              p \in TopFew \/ p > Len(beforeCutoff.ids) - AppendedCount
        /\ \A i, j \in 1..Len(results.distances) :
              (i < j /\ i \notin PlacedPositions /\ j \notin PlacedPositions)
                  => results.distances[i] <= results.distances[j]

\* a returned list whose last hit is an appended lookup, out of order behind
\* the top three positions, with unplaced hits in between
C11_Witness ==
    /\ Returned
    /\ AppendedCount >= 1
    /\ Len(results.ids) = Len(beforeCutoff.ids)
    /\ Len(results.ids) >= 5
    /\ results.distances[Len(results.ids)] < results.distances[Len(results.ids) - 1]
    /\ Len(matched_indices) = 1

\* the while loop of the filtered request ended on its condition: every one
\* of the max_iterations rounds ran and asked for another
BudgetSpent ==
    /\ enable_filtering
    /\ pc \in {"loop", "finalise", "done"}
    /\ iteration >= max_iterations

\* what lines 543-616 make of the accumulated hits
CutAccumulated ==
    LET accumulated == ResultsOf(Take(SortByDistance(all_kept_chunks), k))
    IN  Trim(accumulated,
             KeepCount(accumulated.distances, k, distance_threshold))

\* C12: when the filtered request returns with fewer than k kept hits after
\* the iteration budget is spent, it returns exactly the accumulated hits, in
\* ascending distance, cut by the cutoff selector; when no hit was kept at all
\* it returns the explicitly empty result; and once the budget is spent no
\* step of the request raises.
C12_ShortOfKReturnsAccumulated ==
    /\ [](Returned /\ enable_filtering =>
            /\ all_kept_chunks = <<>> => results = EmptyResults
            /\ (BudgetSpent /\ Len(all_kept_chunks) < k) =>
                  /\ results = CutAccumulated
                  /\ Range(beforeCutoff.ids) =
                        {all_kept_chunks[i].id : i \in 1..Len(all_kept_chunks)})
    /\ [][(BudgetSpent /\ pc # "done") => pc' \in {"finalise", "done"}]_vars

\* a request that spent three rounds, kept two hits of the four it wanted and
\* returned them
C12_Witness ==
    /\ Returned
    /\ BudgetSpent
    /\ max_iterations = 3
    /\ k = 4
    /\ Len(all_kept_chunks) = 2
    /\ Len(results.ids) = 2
    /\ excluded_ids # {}

\* a further round is about to run although every stored passage has been
\* processed: each one is in kept_ids or excluded_ids, the set the where
\* clause of line 402 excludes
Exhausted ==
    /\ enable_filtering
    /\ pc = "loop"
    /\ iteration < max_iterations
    /\ collection # <<>>
    /\ Range(collection) \subseteq (excluded_ids \cup kept_ids)

\* C13 as stated: when every passage the store could return is already in
\* the request's exclusion set, a further round keeps no new hit and ends the
\* loop without a rejection (an empty store answer counts as a round without
\* rejections).
C13_ExhaustedRoundStops ==
    [][Exhausted => (pc' = "finalise" /\ all_kept_chunks' = all_kept_chunks)]_vars

----------------------------------------------------------------------------
(* Filtered requests against a store of reference passages: passages 4, 10 *)
(* and 11 are EXPLANATORY NOTES with a predicate no query of the model     *)
(* satisfies, an unparseable one and one whose evaluation raises KeyError; *)
(* passage 2 carries the predicate of passage 4 without being a reference. *)

ReferenceIds == {1, 2, 4, 10, 11}

InitReference ==
    /\ query \in Queries
    /\ k \in 1..MaxK
    /\ distance_threshold = DefaultThreshold
    /\ max_iterations \in 1..MaxIterations
    /\ enable_filtering = TRUE
    /\ collection \in Rankings(ReferenceIds)
    /\ where_semantics \in {"ignored", "missing_key_matches", "missing_key_hidden"}
    /\ pc = "start"
    /\ IdleCutoff
    /\ IdleBase
    /\ IdleLoop
    /\ IdleCalls
    /\ IdlePredicate
    /\ IdleUtils
    /\ IdleServer

SpecReference == InitReference /\ [][NextFiltered]_vars

\* the passages the first round's store query returned: it carries no where
\* clause
FirstBatch == {collection[i] : i \in 1..Min2(k, Len(collection))}

\* C14: a hit of type "reference" in section EXPLANATORY NOTES is always kept
\* by the filtering step, whatever the query and whatever predicate it
\* carries (unsatisfied, unparseable or unusable); its predicate is not
\* evaluated, so it is never rejected and never makes the request raise.
C14_ReferenceAlwaysKept ==
    enable_filtering =>
        /\ \A id \in Range(collection) :
              Passage(id).is_reference => id \notin excluded_ids
        /\ store_queries >= 1 =>
              /\ pc # "raised"
              /\ \A id \in FirstBatch :
                    Passage(id).is_reference =>
                       /\ id \in kept_ids
                       /\ \E i \in 1..Len(all_kept_chunks) :
                             all_kept_chunks[i].id = id

\* all three reference passages were kept in a round that rejected passage 2
C14_Witness ==
    /\ enable_filtering
    /\ pc = "done"
    /\ {4, 10, 11} \subseteq kept_ids
    /\ 2 \in excluded_ids
    /\ {4, 10, 11} \subseteq Range(beforeCutoff.ids)

\* C15 as stated: one retrieval request makes at most one embedding-service
\* call and at most two targeted entity lookups.
C15_OneEmbeddingTwoLookups ==
    /\ embedding_calls <= 1
    /\ entity_lookups <= 2

\* the targeted lookups of the request are behind it
LookupsDone == pc \in {"category", "cutoff", "done"}

\* C15 amended: one retrieval request makes at most two targeted entity
\* lookups, one per entity missing from the results, and one embedding-service
\* call for the query plus one for each targeted lookup: at most three.
C15_OneEmbeddingPerLookup ==
    /\ entity_lookups <= 2
    /\ embedding_calls <= 1 + entity_lookups
    /\ LookupsDone =>
          /\ entity_lookups = Len(missing_entities)
          /\ embedding_calls = 1 + entity_lookups

\* a comparison request that found neither entity: two lookups, three
\* embedding calls
C15_Witness ==
    /\ pc = "done"
    /\ ~enable_filtering
    /\ Len(missing_entities) = 2
    /\ entity_lookups = 2
    /\ embedding_calls = 3

----------------------------------------------------------------------------
(* Per-user rate limiter: TokenBucket.allow_request, rate_limiter.py.  A   *)
(* call is a sequence of steps; between two of them other calls (threads   *)
(* of the server, or other worker processes on the same data_dir) and the  *)
(* clock may move.                                                         *)

MaxCalls == 3
MaxCapacity == 2
MaxDailyLimit == 3
MaxNow == 2
MaxDay == 2

\* 1.0 token, in the model's half tokens
TokenUnit == 2

CallIds == 1..MaxCalls
UserIds == {<<"u">>, <<"a", "/", "b">>, <<"a", "_", "b">>}

\* _get_user_file: the name of the user's file in data_dir
UserFile(user_id) ==
    [i \in 1..Len(user_id) |->
        IF user_id[i] \in {"/", "\\"} THEN "_" ELSE user_id[i]]

UserFiles == {UserFile(user_id) : user_id \in UserIds}

\* the dictionary json.dump writes
BucketData(user_id, tokens, last_refill, daily_count, daily_reset) ==
    [user_id |-> user_id, tokens |-> tokens, last_refill |-> last_refill,
     daily_count |-> daily_count, daily_reset |-> daily_reset]

NoData == BucketData(<<>>, 0, 0, 0, 0)

\* a file of data_dir: absent, empty (opened for writing, nothing written
\* yet) or holding a dictionary
NoFile == [exists |-> FALSE, empty |-> TRUE, data |-> NoData]
EmptyFile == [exists |-> TRUE, empty |-> TRUE, data |-> NoData]
FileWith(data) == [exists |-> TRUE, empty |-> FALSE, data |-> data]

\* the info dictionary allow_request returns; -1 stands for None or a key the
\* dictionary does not hold
Outcome(allowed, reason, remaining_burst, daily_remaining, retry_after) ==
    [allowed |-> allowed, reason |-> reason, remaining_burst |-> remaining_burst,
     daily_remaining |-> daily_remaining, retry_after |-> retry_after]

NoOutcome == Outcome(FALSE, "none", -1, -1, -1)

IdleCall ==
    [pc |-> "idle", user_id |-> <<>>, data |-> NoData, day |-> 0,
     info |-> NoOutcome]

Return(c, info) ==
    calls' = [calls EXCEPT ![c].pc = "done", ![c].info = info]

\* what no step of the rate limiter touches
LimiterFrame ==
    UNCHANGED <<requestVars, pc, cutoffVars, baseVars, loopVars, callVars,
                predicateVars, serverVars, trackerVars, gateVars>>

\* lines 69-99: the file is opened and locked without blocking, or the new
\* user's dictionary is made up; the calls are numbered in the order in
\* which they begin
Begin(c, user_id) ==
    /\ calls[c].pc = "idle"
    /\ \A d \in 1..(c - 1) : calls[d].pc # "idle"
    /\ LET user_file == UserFile(user_id)
           call == [calls[c] EXCEPT !.user_id = user_id]
       IN  IF ~files[user_file].exists
           THEN /\ calls' = [calls EXCEPT ![c] =
                       [call EXCEPT !.pc = "loaded",
                                    !.data = BucketData(user_id,
                                                limiter.capacity * TokenUnit,
                                                now, 0, today)]]
                /\ UNCHANGED locks
           ELSE IF locks[user_file] # 0
           THEN /\ calls' = [calls EXCEPT ![c] =
                       [call EXCEPT !.pc = "done",
                                    !.info = Outcome(FALSE, "concurrent_request",
                                                     -1, -1, 1)]]
                /\ UNCHANGED locks
           ELSE /\ calls' = [calls EXCEPT ![c] = [call EXCEPT !.pc = "locked"]]
                /\ locks' = [locks EXCEPT ![user_file] = c]
    /\ UNCHANGED <<limiter, files, clockVars>>
    /\ LimiterFrame

\* lines 87-90 and 163-170: json.load under the lock; an empty file raises
\* JSONDecodeError, which the outer handler turns into a denial
Load(c) ==
    /\ calls[c].pc = "locked"
    /\ LET user_file == UserFile(calls[c].user_id)
       IN  /\ locks' = [locks EXCEPT ![user_file] = 0]
           /\ IF files[user_file].empty
              THEN Return(c, Outcome(FALSE, "system_error", -1, -1, 5))
              ELSE calls' = [calls EXCEPT ![c].pc = "loaded",
                                          ![c].data = files[user_file].data]
    /\ UNCHANGED <<limiter, files, clockVars>>
    /\ LimiterFrame

\* lines 105-110: a dictionary of another day starts a new day
DailyReset(data) ==
    IF data.daily_reset # today
    THEN [data EXCEPT !.daily_count = 0, !.daily_reset = today,
                      !.tokens = limiter.capacity * TokenUnit,
                      !.last_refill = now]
    ELSE data

\* mutant: the day's last request is granted one time too many
DailyLimitPassed(data) == data.daily_count > limiter.daily_limit

\* line 113
DailyLimitReached(data) == data.daily_count >= limiter.daily_limit

\* mutant: a token is added at every call, elapsed time or not
RefillAlways(data) ==
    [data EXCEPT !.tokens = Min2(limiter.capacity * TokenUnit, @ + TokenUnit),
                 !.last_refill = now]

\* lines 122-126
Refill(data) ==
    [data EXCEPT !.tokens = Min2(limiter.capacity * TokenUnit,
                                 @ + (now - data.last_refill) * limiter.refill_rate),
                 !.last_refill = now]

\* lines 102-131 and 149-161: the decision, on the call's own dictionary
Decide(c) ==
    /\ calls[c].pc = "loaded"
    /\ LET reset == DailyReset(calls[c].data)
           data == Refill(reset)
       IN  IF DailyLimitReached(reset)
           THEN calls' = [calls EXCEPT
                    ![c].pc = "done", ![c].data = reset, ![c].day = today,
                    ![c].info = Outcome(FALSE, "daily_limit_exceeded", -1, 0, -1)]
           ELSE IF data.tokens >= TokenUnit
           THEN calls' = [calls EXCEPT
                    ![c].pc = "granted", ![c].day = today,
                    ![c].data = [data EXCEPT !.tokens = @ - TokenUnit,
                                             !.daily_count = @ + 1]]
           ELSE calls' = [calls EXCEPT
                    ![c].pc = "done", ![c].data = data, ![c].day = today,
                    ![c].info = Outcome(FALSE, "rate_limited", 0,
                                   limiter.daily_limit - data.daily_count,
                                   (TokenUnit - data.tokens)
                                       \div limiter.refill_rate)]
    /\ UNCHANGED <<limiter, files, locks, clockVars>>
    /\ LimiterFrame

\* line 134: open(user_file, 'w') creates or empties the file, lock or no lock
OpenForWriting(c) ==
    /\ calls[c].pc = "granted"
    /\ files' = [files EXCEPT ![UserFile(calls[c].user_id)] = EmptyFile]
    /\ calls' = [calls EXCEPT ![c].pc = "opened"]
    /\ UNCHANGED <<limiter, locks, clockVars>>
    /\ LimiterFrame

\* lines 135-148: the blocking lock, json.dump, unlock, and the grant
Write(c) ==
    /\ calls[c].pc = "opened"
    /\ locks[UserFile(calls[c].user_id)] = 0
    /\ files' = [files EXCEPT ![UserFile(calls[c].user_id)] =
                                 FileWith(calls[c].data)]
    /\ Return(c, Outcome(TRUE, "none", calls[c].data.tokens \div TokenUnit,
                         limiter.daily_limit - calls[c].data.daily_count, -1))
    /\ UNCHANGED <<limiter, locks, clockVars>>
    /\ LimiterFrame

\* time passes
Tick ==
    /\ now < MaxNow
    /\ now' = now + 1
    /\ UNCHANGED <<today, limiterVars>>
    /\ LimiterFrame

\* midnight passes
NewDay ==
    /\ now < MaxNow
    /\ today < MaxDay
    /\ now' = now + 1
    /\ today' = today + 1
    /\ UNCHANGED limiterVars
    /\ LimiterFrame

InitLimiter ==
    /\ query = NoQuery
    /\ k = 0
    /\ distance_threshold = 0
    /\ max_iterations = 0
    /\ enable_filtering = FALSE
    /\ collection = <<>>
    /\ where_semantics = "ignored"
    /\ pc = "limiter"
    /\ IdleCutoff
    /\ IdleBase
    /\ IdleLoop
    /\ IdleCalls
    /\ IdlePredicate
    /\ IdleServer
    /\ \E capacity \in 1..MaxCapacity, daily_limit \in 1..MaxDailyLimit :
          limiter = [capacity |-> capacity, refill_rate |-> 1,
                     daily_limit |-> daily_limit]
    /\ files = [user_file \in UserFiles |-> NoFile]
    /\ locks = [user_file \in UserFiles |-> 0]
    /\ calls = [c \in CallIds |-> IdleCall]
    /\ now = 0
    /\ today = 1
    /\ tracker = NoTracker
    /\ emails = <<>>
    /\ IdleGate

\* no allow_request call is under way
NoCallRunning == \A c \in CallIds : calls[c].pc \in {"idle", "done"}

\* a call of a single-threaded caller: the one before it has returned
BeginAlone(c, user_id) ==
    /\ NoCallRunning
    /\ Begin(c, user_id)

NextLimiter ==
    \/ \E c \in CallIds, user_id \in UserIds : BeginAlone(c, user_id)
    \/ \E c \in CallIds : Load(c)
    \/ \E c \in CallIds : Decide(c)
    \/ \E c \in CallIds : OpenForWriting(c)
    \/ \E c \in CallIds : Write(c)
    \/ Tick
    \/ NewDay

SpecLimiter == InitLimiter /\ [][NextLimiter]_vars

\* concurrent calls for one user within one day
NextLimiterConcurrent ==
    \/ \E c \in CallIds : Begin(c, <<"u">>)
    \/ \E c \in CallIds : Load(c)
    \/ \E c \in CallIds : Decide(c)
    \/ \E c \in CallIds : OpenForWriting(c)
    \/ \E c \in CallIds : Write(c)
    \/ Tick

SpecLimiterConcurrent == InitLimiter /\ [][NextLimiterConcurrent]_vars

\* the calls that returned allowed
Granted == {c \in CallIds : calls[c].info.allowed}

\* C16 as stated: under every interleaving of concurrent allow_request calls
\* for one user, no two calls consume the same token: the number of granted
\* requests never exceeds the tokens the bucket held (a full bucket) plus the
\* refill of the time elapsed, nor the daily limit.
C16_GrantsWithinTokens ==
    /\ Cardinality(Granted) * TokenUnit
           <= limiter.capacity * TokenUnit + now * limiter.refill_rate
    /\ Cardinality(Granted) <= limiter.daily_limit

\* the granted calls of one user that were decided on one day
GrantedOn(user_id, day) ==
    {c \in Granted : calls[c].user_id = user_id /\ calls[c].day = day}

\* the user's file holds a count of today that has reached the daily limit
CountReached(user_id) ==
    LET stored == files[UserFile(user_id)]
    IN  /\ stored.exists
        /\ ~stored.empty
        /\ stored.data.daily_reset = today
        /\ stored.data.daily_count >= limiter.daily_limit

\* C17: for one user within one calendar day, calls made one after another
\* are granted at most daily_limit times; and a call decided while the stored
\* daily_count of the day has reached daily_limit is denied with reason
\* 'daily_limit_exceeded' and daily_remaining 0, whatever tokens are stored.
C17_DailyLimitHolds ==
    /\ [](\A user_id \in UserIds, day \in 1..MaxDay :
             Cardinality(GrantedOn(user_id, day)) <= limiter.daily_limit)
    /\ [][\A c \in CallIds :
             (calls[c].pc = "loaded" /\ calls'[c].pc # "loaded"
                 /\ CountReached(calls[c].user_id))
             => /\ calls'[c].pc = "done"
                /\ ~calls'[c].info.allowed
                /\ calls'[c].info.reason = "daily_limit_exceeded"
                /\ calls'[c].info.daily_remaining = 0]_vars

\* a call denied for the day although the stored bucket holds a whole token,
\* after the day's limit of two grants
C17_Witness ==
    \E c \in CallIds :
        /\ calls[c].pc = "done"
        /\ calls[c].info.reason = "daily_limit_exceeded"
        /\ calls[c].data.tokens >= TokenUnit
        /\ limiter.daily_limit = 2
        /\ Cardinality(GrantedOn(calls[c].user_id, calls[c].day)) = 2

\* the position of call c among the calls made on its user's file
FileIndex(c) ==
    Cardinality({d \in 1..c :
                   UserFile(calls[d].user_id) = UserFile(calls[c].user_id)})

\* every stored token count lies between 0 and the capacity
StoredTokensInRange ==
    \A user_file \in UserFiles :
        (files[user_file].exists /\ ~files[user_file].empty) =>
            /\ files[user_file].data.tokens >= 0
            /\ files[user_file].data.tokens <= limiter.capacity * TokenUnit

\* C18 as stated: starting from a full bucket and with no time elapsing, the
\* first `capacity` calls are granted and the next one is denied with reason
\* 'rate_limited' and a retry_after value; the stored token count is never
\* below 0 or above capacity.
C18_CapacityGrantsThenLimited ==
    /\ StoredTokensInRange
    /\ now = 0 =>
          \A c \in CallIds :
              calls[c].pc = "done" =>
                 /\ FileIndex(c) <= limiter.capacity => calls[c].info.allowed
                 /\ FileIndex(c) = limiter.capacity + 1 =>
                       /\ ~calls[c].info.allowed
                       /\ calls[c].info.reason = "rate_limited"
                       /\ calls[c].info.retry_after >= 0

\* C18 amended: starting from a full bucket and with no time elapsing, the
\* first min(capacity, daily_limit) calls are granted; every later call is
\* denied, with reason 'daily_limit_exceeded' when daily_limit does not exceed
\* capacity, and otherwise with reason 'rate_limited' and the time one whole
\* token takes as retry_after; the stored token count is never below 0 or
\* above capacity.
C18_GrantsUpToBothLimits ==
    /\ StoredTokensInRange
    /\ now = 0 =>
          \A c \in CallIds :
              calls[c].pc = "done" =>
                 IF FileIndex(c) <= Min2(limiter.capacity, limiter.daily_limit)
                 THEN /\ calls[c].info.allowed
                      /\ calls[c].info.remaining_burst
                            = limiter.capacity - FileIndex(c)
                 ELSE IF limiter.daily_limit <= limiter.capacity
                 THEN /\ ~calls[c].info.allowed
                      /\ calls[c].info.reason = "daily_limit_exceeded"
                 ELSE /\ ~calls[c].info.allowed
                      /\ calls[c].info.reason = "rate_limited"
                      /\ calls[c].info.retry_after
                            = TokenUnit \div limiter.refill_rate

\* with capacity 2 and daily limit 3, the third call on a bucket is the first
\* one denied, for want of a token
C18_Witness ==
    /\ now = 0
    /\ limiter.capacity = 2
    /\ limiter.daily_limit = 3
    /\ \E c \in CallIds :
          /\ calls[c].pc = "done"
          /\ FileIndex(c) = 3
          /\ calls[c].info.reason = "rate_limited"
          /\ files[UserFile(calls[c].user_id)].data.tokens = 0

\* C19 as stated: rate-limit state is per user: a step of an allow_request
\* call made for one user id never changes the stored tokens or daily count
\* of another user id.
C19_OtherUsersUntouched ==
    [][\A c \in CallIds, other \in UserIds :
          (calls'[c] # calls[c] /\ calls'[c].user_id # other)
              => files'[UserFile(other)] = files[UserFile(other)]]_vars

----------------------------------------------------------------------------
(* Daily cost tracker: CostTracker.record_query, cost_tracker.py.  Tokens  *)
(* are counted in blocks: a block of prompt tokens costs InputPrice and a  *)
(* block of completion tokens OutputPrice, the ratio of the gpt-4o-mini    *)
(* prices, and the daily budget is DailyBudget.                            *)

InputPrice == 1
OutputPrice == 4
DailyBudget == 10

MaxTokens == 2
MaxDailyCost == 14
MaxEmails == 4

CostUsers == {<<"u">>, <<"a", "_", "b">>}

\* line 110
BudgetPercentage(daily_cost) == (daily_cost * 100) \div DailyBudget

\* lines 83-89: a tracker of another day starts a new day
TrackerToday ==
    IF today # tracker.current_day
    THEN [tracker EXCEPT !.current_day = today, !.daily_cost = 0,
                         !.user_costs = [user_id \in CostUsers |-> 0],
                         !.alert_80_sent = FALSE]
    ELSE tracker

\* _send_alert, lines 142-194: nothing without an address; a failure of
\* _send_email is swallowed
SendAlert(sent, kind) ==
    IF tracker.alert_email
    THEN Append(sent, [kind |-> kind, day |-> today])
    ELSE sent

\* mutant: the warning goes out whenever the cost stands at 80% or more
WarningDueAlways(percentage, alert_80_sent) == percentage >= 80

\* line 121
WarningDue(percentage, alert_80_sent) == percentage >= 80 /\ ~alert_80_sent

\* record_query, lines 82-129, under the tracker's lock: the tracker's fields
\* and the messages sent after the call
Recorded(user_id, prompt_tokens, completion_tokens) ==
    LET query_cost == prompt_tokens * InputPrice
                      + completion_tokens * OutputPrice
        daily_cost == TrackerToday.daily_cost + query_cost
        percentage == BudgetPercentage(daily_cost)
        warning == WarningDue(percentage, TrackerToday.alert_80_sent)
        warned == IF warning THEN SendAlert(emails, "warning") ELSE emails
    IN  [tracker |-> [TrackerToday EXCEPT
                         !.daily_cost = daily_cost,
                         !.user_costs[user_id] = @ + query_cost,
                         !.alert_80_sent = @ \/ warning],
         emails |-> IF percentage >= 100 THEN SendAlert(warned, "critical")
                    ELSE warned]

RecordQuery(user_id, prompt_tokens, completion_tokens) ==
    LET after == Recorded(user_id, prompt_tokens, completion_tokens)
    IN  /\ pc = "tracker"
        /\ after.tracker.daily_cost <= MaxDailyCost
        /\ Len(emails) + 2 <= MaxEmails
        /\ tracker' = after.tracker
        /\ emails' = after.emails
        /\ UNCHANGED <<requestVars, pc, cutoffVars, baseVars, loopVars,
                       callVars, predicateVars, serverVars, limiterVars,
                       clockVars, gateVars>>

InitTracker ==
    /\ query = NoQuery
    /\ k = 0
    /\ distance_threshold = 0
    /\ max_iterations = 0
    /\ enable_filtering = FALSE
    /\ collection = <<>>
    /\ where_semantics = "ignored"
    /\ pc = "tracker"
    /\ IdleCutoff
    /\ IdleBase
    /\ IdleLoop
    /\ IdleCalls
    /\ IdlePredicate
    /\ IdleServer
    /\ limiter = [capacity |-> 0, refill_rate |-> 0, daily_limit |-> 0]
    /\ files = <<>>
    /\ locks = <<>>
    /\ calls = <<>>
    /\ now = 0
    /\ today = 1
    /\ \E alert_email \in BOOLEAN :
          tracker = [daily_budget |-> DailyBudget, alert_email |-> alert_email,
                     current_day |-> 1, daily_cost |-> 0,
                     user_costs |-> [user_id \in CostUsers |-> 0],
                     alert_80_sent |-> FALSE]
    /\ emails = <<>>
    /\ IdleGate

NextTracker ==
    \/ \E user_id \in CostUsers, prompt_tokens \in 0..MaxTokens,
          completion_tokens \in 0..MaxTokens :
             RecordQuery(user_id, prompt_tokens, completion_tokens)
    \/ NewDay

SpecTracker == InitTracker /\ [][NextTracker]_vars

\* the alerts of one kind handed to _send_email on one day
AlertsOn(kind, day) ==
    {i \in 1..Len(emails) : emails[i].kind = kind /\ emails[i].day = day}

\* the cost accumulated today before the next record_query
CostToday == IF tracker.current_day = today THEN tracker.daily_cost ELSE 0

\* C20: with an alert address configured, the 80% warning is sent exactly once
\* per day, by the first record_query that brings the day's cost to at least
\* 80% of the budget; a critical alert is sent by every record_query whose
\* resulting cost is at least 100% of the budget; a record_query that leaves
\* the cost below 80% sends nothing.
C20_WarningOnceCriticalAlways ==
    /\ [](tracker.alert_email =>
            \A day \in 1..MaxDay :
               /\ Cardinality(AlertsOn("warning", day)) <= 1
               /\ (tracker.current_day = day
                      /\ BudgetPercentage(tracker.daily_cost) >= 80)
                     => Cardinality(AlertsOn("warning", day)) = 1)
    /\ [][(tracker.alert_email /\ (tracker' # tracker \/ emails' # emails)) =>
            emails' = emails
               \o (IF /\ BudgetPercentage(CostToday) < 80
                      /\ BudgetPercentage(tracker'.daily_cost) >= 80
                   THEN <<[kind |-> "warning", day |-> today]>> ELSE <<>>)
               \o (IF BudgetPercentage(tracker'.daily_cost) >= 100
                   THEN <<[kind |-> "critical", day |-> today]>> ELSE <<>>)]_vars

\* a day on which the warning went out once, at 80%, and two later queries
\* each brought a critical alert
C20_Witness ==
    /\ tracker.alert_email
    /\ emails = <<[kind |-> "warning", day |-> 1],
                  [kind |-> "critical", day |-> 1],
                  [kind |-> "critical", day |-> 1]>>
    /\ tracker.daily_cost > DailyBudget

----------------------------------------------------------------------------
(* Token validation: TokenValidator, token_validator.py.  validate runs    *)
(* under the validator's lock, the request to the auth API included, so a  *)
(* call is one step.  User info is known by the user id it carries; <<>>   *)
(* stands for None.                                                        *)

MaxTtl == 2
MaxValidations == 3

Tokens == {"t1", "t2"}

\* the users the auth API knows
AuthUsers == {<<"u">>, <<"a", "_", "b">>}
NoUser == <<>>

\* self.cache: token -> {user_info, expires_at}, or no entry
NoEntry == [present |-> FALSE, user_info |-> NoUser, expires_at |-> 0]
Entry(user_info, expires_at) ==
    [present |-> TRUE, user_info |-> user_info, expires_at |-> expires_at]

\* what GET /auth/me can do: answer 200 with user info, answer 200 with no
\* 'data', answer another status, or fail with a RequestException
ApiAnswers ==
    {[kind |-> "ok", user_info |-> user_id] : user_id \in AuthUsers}
    \cup {[kind |-> kind, user_info |-> NoUser] :
             kind \in {"no_data", "rejected", "request_error"}}

\* mutant: an entry is still served at the second it expires
UnexpiredOrExpiring(cached) == cached.expires_at >= now

\* line 48
Unexpired(cached) == cached.expires_at > now

\* lines 46-49: the entry validate returns without asking the API
CacheHit(token) ==
    validator.cache[token].present /\ Unexpired(validator.cache[token])

\* one validate call as the history keeps it
Validation(token, api_called, answer, returned, user_info) ==
    [token |-> token, at |-> now, api_called |-> api_called, answer |-> answer,
     returned |-> returned, user_info |-> user_info]

\* lines 43-78, for a call the API would answer with `answer`: the new cache
\* and the history record
ValidateOutcome(token, answer) ==
    IF CacheHit(token)
    THEN [cache |-> validator.cache,
          record |-> Validation(token, FALSE, "none", "user",
                                validator.cache[token].user_info)]
    ELSE LET missed == [validator.cache EXCEPT ![token] = NoEntry]
         IN  IF answer.kind = "ok"
             THEN [cache |-> [missed EXCEPT ![token] =
                                 Entry(answer.user_info,
                                       now + validator.cache_ttl)],
                   record |-> Validation(token, TRUE, answer.kind, "user",
                                         answer.user_info)]
             ELSE [cache |-> missed,
                   record |-> Validation(token, TRUE, answer.kind, "none",
                                         NoUser)]

\* what no step of the validator touches
ValidatorFrame ==
    UNCHANGED <<requestVars, pc, cutoffVars, baseVars, loopVars, callVars,
                predicateVars, serverVars, limiterVars, clockVars, trackerVars,
                handled>>

\* validate(token)
Validate(token, answer) ==
    /\ pc = "validator"
    /\ Len(validations) < MaxValidations
    /\ validator' = [validator EXCEPT
                        !.cache = ValidateOutcome(token, answer).cache]
    /\ validations' = Append(validations, ValidateOutcome(token, answer).record)
    /\ ValidatorFrame

\* cleanup_expired_cache, lines 80-89
CleanupExpiredCache ==
    /\ pc = "validator"
    /\ validator' = [validator EXCEPT !.cache =
                        [token \in Tokens |->
                            IF @[token].present /\ @[token].expires_at <= now
                            THEN NoEntry ELSE @[token]]]
    /\ validator' # validator
    /\ UNCHANGED validations
    /\ ValidatorFrame

InitValidator ==
    /\ query = NoQuery
    /\ k = 0
    /\ distance_threshold = 0
    /\ max_iterations = 0
    /\ enable_filtering = FALSE
    /\ collection = <<>>
    /\ where_semantics = "ignored"
    /\ pc = "validator"
    /\ IdleCutoff
    /\ IdleBase
    /\ IdleLoop
    /\ IdleCalls
    /\ IdlePredicate
    /\ IdleServer
    /\ limiter = [capacity |-> 0, refill_rate |-> 0, daily_limit |-> 0]
    /\ files = <<>>
    /\ locks = <<>>
    /\ calls = <<>>
    /\ now = 0
    /\ today = 1
    /\ tracker = NoTracker
    /\ emails = <<>>
    /\ \E cache_ttl \in 1..MaxTtl :
          validator = [cache_ttl |-> cache_ttl,
                       cache |-> [token \in Tokens |-> NoEntry]]
    /\ validations = <<>>
    /\ handled = <<>>

NextValidator ==
    \/ \E token \in Tokens, answer \in ApiAnswers : Validate(token, answer)
    \/ CleanupExpiredCache
    \/ Tick

SpecValidator == InitValidator /\ [][NextValidator]_vars

\* the validate calls before the i-th that asked the API about its token
AskedBefore(i) ==
    {j \in 1..(i - 1) : /\ validations[j].token = validations[i].token
                        /\ validations[j].api_called}

\* the i-th validate call came while an earlier successful validation of its
\* token was less than cache_ttl old, with no API call for the token between
Fresh(i) ==
    /\ AskedBefore(i) # {}
    /\ LET j == CHOOSE x \in AskedBefore(i) : \A y \in AskedBefore(i) : y <= x
       IN  /\ validations[j].returned = "user"
           /\ validations[i].at < validations[j].at + validator.cache_ttl

FreshUser(i) ==
    LET j == CHOOSE x \in AskedBefore(i) : \A y \in AskedBefore(i) : y <= x
    IN  validations[j].user_info

\* C21: validate asks the auth API exactly when its token has no unexpired
\* cache entry: within cache_ttl of a successful validation of the token it
\* returns that validation's user info without a call, from the expiry on it
\* calls again; a call the API rejects (a status other than 200, or no user
\* data) or that fails with a request error returns None, and the cache never
\* holds anything but the user info of a successful API call, for cache_ttl.
C21_ApiCalledIffNotCached ==
    /\ \A i \in 1..Len(validations) :
          /\ validations[i].api_called <=> ~Fresh(i)
          /\ Fresh(i) => /\ validations[i].returned = "user"
                         /\ validations[i].user_info = FreshUser(i)
          /\ validations[i].answer \in {"rejected", "no_data", "request_error"}
                => validations[i].returned = "none"
          /\ (validations[i].returned = "user" /\ validations[i].api_called)
                => validations[i].answer = "ok"
    /\ \A token \in Tokens :
          validator.cache[token].present =>
             \E i \in 1..Len(validations) :
                /\ validations[i].token = token
                /\ validations[i].api_called
                /\ validations[i].answer = "ok"
                /\ validator.cache[token] =
                      Entry(validations[i].user_info,
                            validations[i].at + validator.cache_ttl)
                /\ \A j \in (i + 1)..Len(validations) :
                      validations[j].token = token => ~validations[j].api_called

\* a token validated through the API, served from the cache one tick later,
\* and rejected by the API when its two ticks are over
C21_Witness ==
    /\ validator.cache_ttl = 2
    /\ Len(validations) = 3
    /\ \A i \in 1..3 : validations[i].token = "t1"
    /\ validations[1].api_called /\ validations[1].returned = "user"
    /\ validations[2].at = 1 /\ ~validations[2].api_called
    /\ validations[2].returned = "user"
    /\ validations[3].at = 2 /\ validations[3].api_called
    /\ validations[3].answer = "rejected"
    /\ validations[3].returned = "none"
    /\ ~validator.cache["t1"].present

----------------------------------------------------------------------------
(* POST /api/query: query(), api.py lines 150-322.  Requests are served    *)
(* concurrently; a request's steps are the calls it makes on the shared    *)
(* validator, cost tracker, rate limiter and engine.                       *)

\* no Authorization header, or one that does not start with 'Bearer '
NoToken == "none"

\* a request's handler: position, header token, user id, the number of its
\* allow_request call, the gates it passed in order, the status it answered
\* with (0: none yet), and whether rag.query ran and record_query was called
Handler(at, token, user_id, call, passed, status, executed, recorded) ==
    [pc |-> at, token |-> token, user_id |-> user_id, call |-> call,
     passed |-> passed, status |-> status, executed |-> executed,
     recorded |-> recorded]

Answer(r, status) ==
    handled' = [handled EXCEPT ![r].pc = "answered", ![r].status = status]

\* what the handler itself leaves alone
GateFrame ==
    UNCHANGED <<requestVars, pc, cutoffVars, baseVars, loopVars, callVars,
                predicateVars, serverVars, clockVars>>

\* lines 171-179 with validate_user and extract_token, lines 96-121
ValidateUser(r, token, answer) ==
    /\ handled[r].pc = "received"
    /\ IF token = NoToken
       THEN /\ handled' = [handled EXCEPT ![r].pc = "answered",
                                          ![r].status = 401]
            /\ UNCHANGED <<validator, validations>>
       ELSE LET outcome == ValidateOutcome(token, answer)
            IN  /\ validator' = [validator EXCEPT !.cache = outcome.cache]
                /\ validations' = Append(validations, outcome.record)
                /\ handled' = [handled EXCEPT ![r] =
                      IF outcome.record.user_info = NoUser
                      THEN [@ EXCEPT !.pc = "answered", !.token = token,
                                     !.status = 401]
                      ELSE [@ EXCEPT !.pc = "budget", !.token = token,
                                     !.user_id = outcome.record.user_info,
                                     !.passed = Append(@, "token")]]
    /\ UNCHANGED <<limiterVars, trackerVars>>
    /\ GateFrame

\* is_budget_exceeded, cost_tracker.py line 134
BudgetExceeded == tracker.daily_cost >= tracker.daily_budget

\* mutant: the budget is not looked at
CheckBudgetSkipped(r) ==
    /\ handled[r].pc = "budget"
    /\ handled' = [handled EXCEPT ![r].pc = "limiter",
                                  ![r].passed = Append(@, "budget")]
    /\ UNCHANGED <<validator, validations, limiterVars, trackerVars>>
    /\ GateFrame

\* lines 181-190
CheckBudget(r) ==
    /\ handled[r].pc = "budget"
    /\ IF BudgetExceeded
       THEN Answer(r, 503)
       ELSE handled' = [handled EXCEPT ![r].pc = "limiter",
                                       ![r].passed = Append(@, "budget")]
    /\ UNCHANGED <<validator, validations, limiterVars, trackerVars>>
    /\ GateFrame

\* line 193: the request enters allow_request
AllowRequest(r) ==
    /\ handled[r].pc = "limiter"
    /\ Begin(handled[r].call, handled[r].user_id)

\* lines 193-210: allow_request has returned
RateLimitAnswer(r) ==
    /\ handled[r].pc = "limiter"
    /\ calls[handled[r].call].pc = "done"
    /\ IF calls[handled[r].call].info.allowed
       THEN handled' = [handled EXCEPT ![r].pc = "parse",
                                       ![r].passed = Append(@, "limiter")]
       ELSE Answer(r, 429)
    /\ UNCHANGED <<validator, validations, limiterVars, trackerVars>>
    /\ GateFrame

\* lines 212-241: the body is no JSON, holds no question, or holds one
ParseRequest(r, body) ==
    /\ handled[r].pc = "parse"
    /\ IF body = "question"
       THEN handled' = [handled EXCEPT ![r].pc = "query"]
       ELSE Answer(r, 400)
    /\ UNCHANGED <<validator, validations, limiterVars, trackerVars>>
    /\ GateFrame

\* lines 243-263 and 292-322: the engine is fetched and asked; either may raise
ExecuteQuery(r, outcome) ==
    /\ handled[r].pc = "query"
    /\ handled' = [handled EXCEPT ![r] =
          CASE outcome = "no_engine" -> [@ EXCEPT !.pc = "answered",
                                                   !.status = 500]
            [] outcome = "raised" -> [@ EXCEPT !.pc = "answered",
                                                !.status = 500,
                                                !.executed = TRUE]
            [] OTHER -> [@ EXCEPT !.pc = "record", !.executed = TRUE]]
    /\ UNCHANGED <<validator, validations, limiterVars, trackerVars>>
    /\ GateFrame

\* lines 265-290
RecordCosts(r, prompt_tokens, completion_tokens) ==
    /\ handled[r].pc = "record"
    /\ LET after == Recorded(handled[r].user_id, prompt_tokens,
                             completion_tokens)
       IN  /\ tracker' = after.tracker
           /\ emails' = after.emails
    /\ handled' = [handled EXCEPT ![r].pc = "answered", ![r].status = 200,
                                  ![r].recorded = TRUE]
    /\ UNCHANGED <<validator, validations, limiterVars>>
    /\ GateFrame

\* the orders in which the requests can enter allow_request
CallNumberings ==
    {numbering \in [Requests -> 1..Cardinality(Requests)] :
        \A r, s \in Requests : r # s => numbering[r] # numbering[s]}

InitGate ==
    /\ query = NoQuery
    /\ k = 0
    /\ distance_threshold = 0
    /\ max_iterations = 0
    /\ enable_filtering = FALSE
    /\ collection = <<>>
    /\ where_semantics = "ignored"
    /\ pc = "gate"
    /\ IdleCutoff
    /\ IdleBase
    /\ IdleLoop
    /\ IdleCalls
    /\ IdlePredicate
    /\ IdleServer
    /\ \E capacity \in 1..MaxCapacity :
          limiter = [capacity |-> capacity, refill_rate |-> 1,
                     daily_limit |-> MaxDailyLimit]
    /\ files = [user_file \in UserFiles |-> NoFile]
    /\ locks = [user_file \in UserFiles |-> 0]
    /\ calls = [c \in CallIds |-> IdleCall]
    /\ now = 0
    /\ today = 1
    /\ tracker = [daily_budget |-> DailyBudget, alert_email |-> FALSE,
                  current_day |-> 1, daily_cost |-> 0,
                  user_costs |-> [user_id \in CostUsers |-> 0],
                  alert_80_sent |-> FALSE]
    /\ emails = <<>>
    /\ validator = [cache_ttl |-> MaxTtl,
                    cache |-> [token \in Tokens |-> NoEntry]]
    /\ validations = <<>>
    /\ \E numbering \in CallNumberings :
          handled = [r \in Requests |->
                        Handler("received", NoToken, NoUser, numbering[r],
                                <<>>, 0, FALSE, FALSE)]

NextGate ==
    \/ \E r \in Requests, token \in Tokens \cup {NoToken},
          answer \in ApiAnswers : ValidateUser(r, token, answer)
    \/ \E r \in Requests : CheckBudget(r)
    \/ \E r \in Requests : AllowRequest(r)
    \/ \E c \in CallIds : Load(c)
    \/ \E c \in CallIds : Decide(c)
    \/ \E c \in CallIds : OpenForWriting(c)
    \/ \E c \in CallIds : Write(c)
    \/ \E r \in Requests : RateLimitAnswer(r)
    \/ \E r \in Requests, body \in {"none", "no_question", "question"} :
          ParseRequest(r, body)
    \/ \E r \in Requests, outcome \in {"no_engine", "raised", "answered"} :
          ExecuteQuery(r, outcome)
    \/ \E r \in Requests, prompt_tokens \in {0, MaxTokens},
          completion_tokens \in {0, MaxTokens} :
             RecordCosts(r, prompt_tokens, completion_tokens)

SpecGate == InitGate /\ [][NextGate]_vars

\* request r has not entered allow_request
NoTokenConsumed(r) == calls[handled[r].call].pc = "idle"

----------------------------------------------------------------------------
(* The stop decision of the filtering loop                                 *)

\* what the store answers to the query of the next round, lines 392-407
NextBatch ==
    IF excluded_ids \cup kept_ids # {}
    THEN StoreQueryWhere(k, excluded_ids \cup kept_ids)
    ELSE StoreQuery(k)

\* a round is being run: the store is queried
RoundStep == enable_filtering /\ store_queries' = store_queries + 1

EvaluatedInRound ==
    {Uid(newly_kept'[i].id) : i \in 1..Len(newly_kept')}
        \cup Range(newly_excluded')

\* C24 as stated: the seen set of a filtered request (the uids kept or
\* rejected so far, which every query after the first excludes) only grows,
\* and no round evaluates a passage, with or without uid metadata, that an
\* earlier round of the request kept or rejected.
C24_SeenNeverEvaluatedAgain ==
    /\ [][enable_filtering =>
            (excluded_ids \cup kept_ids) \subseteq (excluded_ids' \cup kept_ids')]_vars
    /\ [][(RoundStep /\ NextBatch.ids # <<>> /\ pc' # "raised") =>
            EvaluatedInRound \cap (excluded_ids \cup kept_ids) = {}]_vars

----------------------------------------------------------------------------
(* Parent-category injection                                               *)

\* the four lists of a hit list describe the same hits, one to one
Aligned(res) ==
    /\ Len(res.documents) = Len(res.ids)
    /\ Len(res.metadatas) = Len(res.ids)
    /\ Len(res.distances) = Len(res.ids)
    /\ \A i \in 1..Len(res.ids) :
          res.documents[i] = res.ids[i] /\ res.metadatas[i] = res.ids[i]

\* the category step put the whole category hit at index 1
CategoryInserted ==
    /\ results.ids # <<>>
    /\ results' = InsertHit(results, 1,
                     [id |-> Passage(results.metadatas[1]).parent_category_id,
                      document |-> Passage(results.metadatas[1]).parent_category_id,
                      metadata |-> Passage(results.metadatas[1]).parent_category_id,
                      distance |-> results.distances[1] + Epsilon])

\* C25 as stated: when the parent-category lookup of base retrieval fails,
\* whether the fetch raises or the fetched record lacks a field, the working
\* hit list is exactly what it was before the attempt, its four lists still
\* aligned one to one, and the request goes on to the cutoff.
C25_FailedLookupLeavesList ==
    [][(~enable_filtering /\ pc = "category") =>
          /\ pc' = "cutoff"
          /\ CategoryInserted \/ results' = results
          /\ Aligned(results) => Aligned(results')]_vars

\* the parent category the top hit of the working list names, 0 if none
TopParent ==
    IF results.metadatas = <<>> THEN 0
    ELSE Passage(results.metadatas[1]).parent_category_id

\* list with item put behind its first element
BehindFirst(list, item) ==
    <<list[1], item>> \o SubSeq(list, 2, Len(list))

\* C26: in base retrieval, when the top hit names a parent category that is
\* not among the ids of the working list and the lookup returns its record,
\* the category becomes the second hit, with the top hit's distance plus 0.05,
\* and every other hit keeps its place relative to the others; when the top
\* hit names no category, or one already in the list, nothing is fetched and
\* the list is left as it is.
C26_CategoryBehindTopHit ==
    [][(~enable_filtering /\ pc = "category") =>
          /\ (TopParent # 0 /\ TopParent \notin Range(results.ids)
                 /\ category_get' = "returns") =>
                results' =
                   [ids |-> BehindFirst(results.ids, TopParent),
                    documents |-> BehindFirst(results.documents, TopParent),
                    metadatas |-> BehindFirst(results.metadatas, TopParent),
                    distances |-> BehindFirst(results.distances,
                                              results.distances[1] + Epsilon)]
          /\ (TopParent = 0 \/ TopParent \in Range(results.ids)) =>
                /\ results' = results
                /\ category_get' = "none"]_vars

\* a two-hit list whose top hit names a category the search did not return:
\* the category was fetched and now sits between the two
C26_Witness ==
    /\ ~enable_filtering
    /\ pc = "cutoff"
    /\ category_get = "returns"
    /\ Len(fetched.ids) = 2
    /\ results.ids = <<fetched.ids[1],
                       Passage(fetched.metadatas[1]).parent_category_id,
                       fetched.ids[2]>>
    /\ results.distances[2] = results.distances[1] + Epsilon
    /\ results.distances[3] = fetched.distances[2]

----------------------------------------------------------------------------
(* Entity repositioning                                                    *)

\* the hits of a list that no entity matched, in the order of the list
Unmatched(res, matched_ids) ==
    LET NotMatched(id) == id \notin matched_ids
    IN  SelectSeq(res.ids, NotMatched)

\* C27 as stated: entity repositioning only permutes the hit list: whatever
\* the hits and the two entities, the step does not raise, the list holds the
\* same hits afterwards as before, and the hits no entity matched keep their
\* order among themselves (only matched hits change place).
C27_RepositionPermutes ==
    [][(~enable_filtering /\ pc = "entities") =>
          LET matched_ids == {results.ids[matched_indices'[i] + 1] :
                                 i \in 1..Len(matched_indices')}
          IN  /\ pc' # "raised"
              /\ Len(results'.ids) = Len(results.ids)
              /\ Range(results'.ids) = Range(results.ids)
              /\ Aligned(results')
              /\ Unmatched(results', matched_ids) = Unmatched(results, matched_ids)]_vars

----------------------------------------------------------------------------
(* The fetch limit of base retrieval, for the k a caller may ask for:      *)
(* query() hands on the request's k unchecked (api.py line 231)            *)

MaxRequestK == 16

InitExpansion ==
    /\ query \in Queries
    /\ k \in 1..MaxRequestK
    /\ distance_threshold = DefaultThreshold
    /\ max_iterations = MaxIterations
    /\ enable_filtering = FALSE
    /\ \E ids \in SUBSET {1, 3, 9} : collection = InFixtureOrder(ids, 1)
    /\ where_semantics = "ignored"
    /\ pc = "start"
    /\ IdleCutoff
    /\ IdleBase
    /\ IdleLoop
    /\ IdleCalls
    /\ IdlePredicate
    /\ IdleUtils
    /\ IdleServer

NextExpansion == SearchBase

SpecExpansion == InitExpansion /\ [][NextExpansion]_vars

\* C28 as stated: for a comparison query, base retrieval asks the store for
\* at least k results: the fetch limit after the entity expansion is never
\* below the caller's k, whatever k >= 1 is.
C28_ExpansionNotBelowK ==
    (~enable_filtering /\ pc # "start" /\ entities_mentioned # <<>>)
        => expanded_k >= k

----------------------------------------------------------------------------
(* Each passage at most once in a filtered answer                          *)

NoIdTwice(ids) == \A i, j \in 1..Len(ids) : ids[i] = ids[j] => i = j

\* the ids of the hits kept so far, those of the round being run included
KeptSoFar(st) ==
    [i \in 1..Len(all_kept_chunks) + Len(st.newly_kept) |->
        IF i <= Len(all_kept_chunks) THEN all_kept_chunks[i].id
        ELSE st.newly_kept[i - Len(all_kept_chunks)].id]

\* the loop of lines 423-496 taken one hit at a time, from the i-th hit on:
\* behind every hit the two sets are disjoint and no kept id is there twice
RECURSIVE OnceBehindEachHit(_, _, _)
OnceBehindEachHit(batch, i, st) ==
    \/ i > Len(batch.ids)
    \/ st.raised # "none"
    \/ LET behind == FilterBatch(ResultsOf(<<Chunk(batch, i)>>), 1, st)
       IN  /\ behind.kept_ids \cap behind.excluded_ids = {}
           /\ NoIdTwice(KeptSoFar(behind))
           /\ OnceBehindEachHit(batch, i + 1, behind)

\* C29: throughout a filtered request kept_ids and excluded_ids are disjoint
\* and the kept hits carry pairwise different ids, between the rounds and
\* behind every hit of the round being run, so that the list
\* _retrieve_with_filtering returns holds each passage at most once.
C29_EachPassageOnce ==
    enable_filtering =>
        /\ kept_ids \cap excluded_ids = {}
        /\ NoIdTwice([i \in 1..Len(all_kept_chunks) |-> all_kept_chunks[i].id])
        /\ (pc = "loop" /\ iteration < max_iterations) =>
              OnceBehindEachHit(NextBatch, 1,
                  [kept_ids |-> kept_ids, excluded_ids |-> excluded_ids,
                   newly_kept |-> <<>>, newly_excluded |-> <<>>,
                   raised |-> "none"])
        /\ pc = "done" =>
              /\ NoIdTwice(results.ids)
              /\ NoIdTwice(beforeCutoff.ids)

\* the store ignored the where clause, so the second round was handed the
\* hits of the first again, kept ones among them, and the answer is out
C29_Witness ==
    /\ enable_filtering
    /\ where_semantics = "ignored"
    /\ pc = "done"
    /\ store_queries >= 2
    /\ kept_ids # {}
    /\ excluded_ids # {}
    /\ Len(results.ids) >= 2
    /\ Len(all_kept_chunks) = Cardinality(kept_ids)

----------------------------------------------------------------------------
(* What a denied allow_request call leaves behind                          *)

\* lines 134-141 and 163-170: the write raises behind open(user_file, 'w'),
\* the disk being full or the file not allowed to grow; the handler turns
\* the error into a denial and the file stays as line 134 left it
WriteFails(c) ==
    /\ calls[c].pc = "opened"
    /\ locks[UserFile(calls[c].user_id)] = 0
    /\ Return(c, Outcome(FALSE, "system_error", -1, -1, 5))
    /\ UNCHANGED <<limiter, files, locks, clockVars>>
    /\ LimiterFrame

\* calls made one after another against a file system whose writes can fail
NextLimiterFaulty ==
    \/ \E c \in CallIds, user_id \in UserIds : BeginAlone(c, user_id)
    \/ \E c \in CallIds : Load(c)
    \/ \E c \in CallIds : Decide(c)
    \/ \E c \in CallIds : OpenForWriting(c)
    \/ \E c \in CallIds : Write(c)
    \/ \E c \in CallIds : WriteFails(c)
    \/ Tick
    \/ NewDay

SpecLimiterFaulty == InitLimiter /\ [][NextLimiterFaulty]_vars

\* the step of call c in which it returns a denial
ReturnsDenied(c) ==
    /\ calls[c].pc # "done"
    /\ calls'[c].pc = "done"
    /\ ~calls'[c].info.allowed

\* call c takes a step of its reading and deciding part, lines 71-131
ReadOrDecideStep(c) ==
    /\ calls[c].pc \in {"idle", "locked", "loaded"}
    /\ calls'[c] # calls[c]

\* C30 as stated: an allow_request call that is denied (rate_limited,
\* daily_limit_exceeded, concurrent_request or system_error) leaves the
\* user's stored bucket as it was: it returns out of its reading and deciding
\* part, of which no step changes a bucket file, so tokens, last_refill,
\* daily_count and daily_reset are the same after the call as before; and
\* once no call is under way every bucket file that exists holds a
\* dictionary a later call can load.
C30_DeniedLeavesBucket ==
    /\ [][\A c \in CallIds :
             /\ ReturnsDenied(c) =>
                   /\ calls[c].pc \in {"idle", "locked", "loaded"}
                   /\ calls'[c].info.reason \in
                         {"rate_limited", "daily_limit_exceeded",
                          "concurrent_request", "system_error"}
             /\ ReadOrDecideStep(c) => files' = files]_vars
    /\ [](NoCallRunning =>
             \A user_file \in UserFiles :
                files[user_file].exists => ~files[user_file].empty)

====
